---- MODULE Spec2Model ----
(***************************************************************************)
(* Polar MCP server: the hosted OAuth2 authorization flows (opaque-session *)
(* worker and delegated-authorization handler) over the key-value store,   *)
(* and the tool dispatcher executePolarTool over the upstream client.      *)
(***************************************************************************)
EXTENDS Integers, Sequences, FiniteSets, TLC

\* Number of crypto.randomUUID() draws in one run of the hosted handlers.
MaxUUID == 3

\* JavaScript's undefined / null for a query parameter, form field or argument.
Undefined == "<undefined>"

\* The opaque strings crypto.randomUUID() returns, in the order drawn.
UUIDs == <<"u1", "u2", "u3", "u4", "u5", "u6">>

RandomUUID(n) == UUIDs[n]

Tokens == {RandomUUID(n) : n \in 1..MaxUUID}

\* Request origins on which the worker can be reached.
Origins == {"https://a.example", "https://b.example"}

\* Downstream client ids; the second has the first as a prefix.
ClientIds == {"c1", "c12"}

COOKIE_NAME == "mcp-polar-approved"

Cookies == {""} \cup {COOKIE_NAME \o "=" \o c : c \in ClientIds}

Variants == {"opaque", "delegated"}

\* Answers of the vendor token endpoint.
TokenResponses ==
    { [ok |-> TRUE, status |-> 200, access_token |-> "tokA", x_user_id |-> 11],
      [ok |-> TRUE, status |-> 200, access_token |-> "tokB", x_user_id |-> 22],
      [ok |-> FALSE, status |-> 400, access_token |-> Undefined, x_user_id |-> 0] }

\* Status answers of the vendor registration endpoint POST /users.
RegisterStatuses == {200, 409, 500}

VARIABLES
    variant,    \* which hosted deployment runs: opaque-session or delegated
    kv,         \* OAUTH_KV: the present keys and their values
    uuid,       \* number of UUIDs drawn so far
    grants,     \* completeAuthorization calls made (delegated mode)
    completed,  \* per state token: number of callbacks that reached COMPLETED
    issued,     \* per state token sent to the vendor: the redirect_uri sent with
                \* it and the auth request it was stored for
    consumed,   \* state tokens whose entry a callback found and deleted
    requests,   \* ids of the auth requests stored (delegated mode)
    resolved,   \* ids of the auth requests a callback found and deleted
    last,       \* the last event: the request handled and what it did
    tool,       \* the tool dispatcher: the invocation and its trace
    registered, \* vendor side: the user ids registered with this client
    inflight    \* per concurrent callback request: its position in the
                \* handler and what it has read so far

vars == <<variant, kv, uuid, grants, completed, issued, consumed, requests,
          resolved, last, tool, registered, inflight>>

-----------------------------------------------------------------------------
(* The key-value store. *)

StateKey(token) == "state:" \o token

AuthRequestKey(stateKey) == "auth_request:" \o stateKey

SessionKey(sessionId) == "session:" \o sessionId

KvHas(store, key) == key \in DOMAIN store

KvGet(store, key) == IF key \in DOMAIN store THEN store[key] ELSE Undefined

KvPut(store, key, value) ==
    [k \in DOMAIN store \cup {key} |-> IF k = key THEN value ELSE store[k]]

\* KvDelete leaving the entry in place.
KvDeleteKeep(store, key) == store

KvDelete(store, key) == [k \in DOMAIN store \ {key} |-> store[k]]

Op(op, key) == [op |-> op, key |-> key]

-----------------------------------------------------------------------------
(* Responses. *)

NoCalls == << >>

Event(route, status, outcome, ops, tokenCalls, registerCalls, query) ==
    [route |-> route, status |-> status, outcome |-> outcome, kvOps |-> ops,
     tokenCalls |-> tokenCalls, registerCalls |-> registerCalls,
     query |-> query, issuedState |-> Undefined, session |-> Undefined,
     setCookie |-> Undefined, uncaught |-> FALSE, sessionParam |-> Undefined,
     authorizeUrl |-> Undefined, toolCalls |-> NoCalls, clientId |-> Undefined,
     cookie |-> Undefined]

NoQuery == [code |-> Undefined, state |-> Undefined, error |-> Undefined]

NoEvent == Event("none", 0, "none", << >>, NoCalls, NoCalls, NoQuery)

\* JavaScript truthiness of an optional string.
Truthy(s) == s # Undefined /\ s # ""

Query(code, state, error) == [code |-> code, state |-> state, error |-> error]

\* Values a query parameter of /callback can take: absent, empty, or a string.
CodeParams == {Undefined, "", "code1"}

StateParams == {Undefined, ""} \cup Tokens

ErrorParams == {Undefined, "", "access_denied"}

\* String.prototype.includes
Includes(hay, needle) ==
    \E i \in 1..(Len(hay) - Len(needle) + 1) :
        SubSeq(hay, i, i + Len(needle) - 1) = needle

clientIdAlreadyApproved(cookie, clientId) ==
    Includes(cookie, COOKIE_NAME \o "=" \o clientId)

CallbackUrl(origin) == origin \o "/callback"

\* The token exchange POST and the vendor's answer to it.
TokenCall(code, redirectUri, response) ==
    [code |-> code, redirect_uri |-> redirectUri, ok |-> response.ok,
     access_token |-> response.access_token, x_user_id |-> response.x_user_id]

Issue(redirectUri, stateKey) == [redirectUri |-> redirectUri, stateKey |-> stateKey]

RegisterCall(accessToken, memberId, status) ==
    [access_token |-> accessToken, member_id |-> memberId, status |-> status]

Bump(f, token) == [f EXCEPT ![token] = @ + 1]

-----------------------------------------------------------------------------
(* Opaque-session worker: fetch(request, env, ctx). *)

WorkerAuthorize(origin) ==
    /\ variant = "opaque"
    /\ last = NoEvent
    /\ uuid < MaxUUID
    /\ LET state == RandomUUID(uuid + 1)
           redirectUri == CallbackUrl(origin)
       IN  /\ kv' = KvPut(kv, StateKey(state), "valid")
           /\ uuid' = uuid + 1
           /\ issued' = KvPut(issued, state, Issue(redirectUri, Undefined))
           /\ last' = [Event("authorize", 302, "REDIRECTED_TO_VENDOR",
                             <<Op("put", StateKey(state))>>, NoCalls, NoCalls,
                             NoQuery)
                       EXCEPT !.issuedState = state]
    /\ UNCHANGED <<variant, grants, completed, consumed, requests, resolved, tool, registered, inflight>>

\* CallbackPrecheck without the check of the error parameter.
CallbackPrecheckNoError(q) ==
    IF ~Truthy(q.code) \/ ~Truthy(q.state) THEN "bad_request" ELSE "pass"

\* CallbackPrecheck without the check of the code parameter.
CallbackPrecheckNoCode(q) ==
    IF Truthy(q.error) THEN "vendor_denied"
    ELSE IF ~Truthy(q.state) THEN "bad_request"
    ELSE "pass"

\* WorkerVerifyState / HandlerResolve are entered only when this passes.
\* if (error) ... if (!code || !state) ...: the checks made before any store access.
CallbackPrecheck(q) ==
    IF Truthy(q.error) THEN "vendor_denied"
    ELSE IF ~Truthy(q.code) \/ ~Truthy(q.state) THEN "bad_request"
    ELSE "pass"

\* WorkerVerifyState without the delete of the state entry.
WorkerVerifyStateKeep(store, state) ==
    LET key == StateKey(state)
    IN  [found |-> KvHas(store, key), kv |-> store, ops |-> <<Op("get", key)>>]

\* WorkerVerifyState without the check that the state entry was found.
WorkerVerifyStateBlind(store, state) ==
    LET key == StateKey(state)
    IN  [found |-> TRUE, kv |-> KvDelete(store, key),
         ops |-> <<Op("get", key), Op("delete", key)>>]

\* The store steps of the worker's callback: get, then delete when found.
WorkerVerifyState(store, state) ==
    LET key == StateKey(state)
        storedState == KvGet(store, key)
    IN  IF ~KvHas(store, key)
        THEN [found |-> FALSE, kv |-> store, ops |-> <<Op("get", key)>>]
        ELSE [found |-> TRUE, kv |-> KvDelete(store, key),
              ops |-> <<Op("get", key), Op("delete", key)>>]

\* WorkerExchange ending the callback after the registration call.
WorkerExchangeRegisterFatal(origin, q, v, tokenResponse, registerStatus) ==
    /\ kv' = v.kv
    /\ last' = Event("callback", 500, "registration_error", v.ops,
                     <<TokenCall(q.code, CallbackUrl(origin), tokenResponse)>>,
                     <<RegisterCall(tokenResponse.access_token,
                                    <<"mcp_", tokenResponse.x_user_id>>,
                                    registerStatus)>>, q)
    /\ UNCHANGED <<uuid, completed>>

\* WorkerExchange without the check of tokenResponse.ok.
WorkerExchangeUnchecked(origin, q, v, tokenResponse, registerStatus) ==
    /\ uuid < MaxUUID
    /\ kv' = KvPut(v.kv, SessionKey(RandomUUID(uuid + 1)),
                   [accessToken |-> tokenResponse.access_token,
                    userId |-> tokenResponse.x_user_id])
    /\ uuid' = uuid + 1
    /\ completed' = Bump(completed, q.state)
    /\ last' = [Event("callback", 200, "COMPLETED",
                      v.ops \o <<Op("put", SessionKey(RandomUUID(uuid + 1)))>>,
                      <<TokenCall(q.code, CallbackUrl(origin), tokenResponse)>>,
                      <<RegisterCall(tokenResponse.access_token,
                                     <<"mcp_", tokenResponse.x_user_id>>,
                                     registerStatus)>>, q)
                EXCEPT !.session = RandomUUID(uuid + 1)]

\* The callback once the state entry has been found and deleted: the token
\* exchange, the registration call and the session.
WorkerExchange(origin, q, v, tokenResponse, registerStatus) ==
    LET tokenCalls == <<TokenCall(q.code, CallbackUrl(origin), tokenResponse)>>
        registerCalls ==
            <<RegisterCall(tokenResponse.access_token,
                           <<"mcp_", tokenResponse.x_user_id>>, registerStatus)>>
        sessionId == RandomUUID(uuid + 1)
        sessionKey == SessionKey(sessionId)
    IN  IF ~tokenResponse.ok
        THEN /\ kv' = v.kv
             /\ last' = Event("callback", 400, "token_exchange_error", v.ops,
                              tokenCalls, NoCalls, q)
             /\ UNCHANGED <<uuid, completed>>
        ELSE /\ uuid < MaxUUID
             /\ kv' = KvPut(v.kv, sessionKey,
                            [accessToken |-> tokenResponse.access_token,
                             userId |-> tokenResponse.x_user_id])
             /\ uuid' = uuid + 1
             /\ completed' = Bump(completed, q.state)
             /\ last' = [Event("callback", 200, "COMPLETED",
                               v.ops \o <<Op("put", sessionKey)>>,
                               tokenCalls, registerCalls, q)
                         EXCEPT !.session = sessionId]

WorkerCallback(q) ==
    /\ variant = "opaque"
    /\ last = NoEvent
    /\ LET pre == CallbackPrecheck(q)
           v == WorkerVerifyState(kv, q.state)
       IN  IF pre # "pass"
           THEN /\ last' = Event("callback", 400, pre, << >>, NoCalls, NoCalls, q)
                /\ UNCHANGED <<kv, uuid, completed, consumed>>
           ELSE IF ~v.found
           THEN /\ last' = Event("callback", 400, "csrf_invalid", v.ops,
                                 NoCalls, NoCalls, q)
                /\ UNCHANGED <<kv, uuid, completed, consumed>>
           ELSE /\ consumed' = consumed \cup {q.state}
                /\ \E o \in Origins, t \in TokenResponses, r \in RegisterStatuses :
                       WorkerExchange(o, q, v, t, r)
    /\ UNCHANGED <<variant, grants, issued, requests, resolved, tool, registered, inflight>>

-----------------------------------------------------------------------------
(* Delegated-authorization handler: PolarHandler (Hono app). *)

\* redirectToPolar(c, stateKey): store the callback state, redirect to the vendor.
redirectToPolar(store, n, origin, stateKey) ==
    LET callbackState == RandomUUID(n + 1)
        key == StateKey(callbackState)
    IN  [kv |-> KvPut(store, key, [stateKey |-> stateKey]),
         uuid |-> n + 1,
         ops |-> <<Op("put", key)>>,
         callbackState |-> callbackState,
         callbackUrl |-> CallbackUrl(origin)]

HandlerGetAuthorize(origin, clientId, cookie) ==
    /\ variant = "delegated"
    /\ last = NoEvent
    /\ uuid < MaxUUID
    /\ LET stateKey == RandomUUID(uuid + 1)
           key == AuthRequestKey(stateKey)
           kv1 == KvPut(kv, key, [clientId |-> clientId])
           alreadyApproved == clientIdAlreadyApproved(cookie, clientId)
           r == redirectToPolar(kv1, uuid + 1, origin, stateKey)
       IN  IF alreadyApproved
           THEN /\ uuid + 1 < MaxUUID
                /\ kv' = r.kv
                /\ uuid' = r.uuid
                /\ issued' = KvPut(issued, r.callbackState,
                                   Issue(r.callbackUrl, stateKey))
                /\ last' = [Event("authorize", 302, "REDIRECTED_TO_VENDOR",
                                  <<Op("put", key)>> \o r.ops, NoCalls, NoCalls,
                                  NoQuery)
                            EXCEPT !.issuedState = r.callbackState,
                                   !.clientId = clientId, !.cookie = cookie]
           ELSE /\ kv' = kv1
                /\ uuid' = uuid + 1
                /\ issued' = issued
                /\ last' = [Event("authorize", 200, "APPROVAL_PAGE",
                                  <<Op("put", key)>>, NoCalls, NoCalls, NoQuery)
                            EXCEPT !.clientId = clientId, !.cookie = cookie]
    /\ requests' = requests \cup {RandomUUID(uuid + 1)}
    /\ UNCHANGED <<variant, grants, completed, consumed, resolved, tool, registered, inflight>>

\* HandlerPostAuthorize without the lookup of the auth request.
HandlerPostAuthorizeNoCheck(origin, stateKey) ==
    /\ variant = "delegated"
    /\ last = NoEvent
    /\ uuid < MaxUUID
    /\ LET r == redirectToPolar(kv, uuid, origin, stateKey)
       IN  /\ kv' = r.kv
           /\ uuid' = r.uuid
           /\ issued' = KvPut(issued, r.callbackState, Issue(r.callbackUrl, stateKey))
           /\ last' = [Event("post_authorize", 302, "REDIRECTED_TO_VENDOR", r.ops,
                             NoCalls, NoCalls, NoQuery)
                       EXCEPT !.issuedState = r.callbackState]
    /\ UNCHANGED <<variant, grants, completed, consumed, requests, resolved, tool, registered, inflight>>

HandlerPostAuthorize(origin, stateKey) ==
    /\ variant = "delegated"
    /\ last = NoEvent
    /\ LET key == AuthRequestKey(stateKey)
           authRequest == KvGet(kv, key)
           r == redirectToPolar(kv, uuid, origin, stateKey)
       IN  IF ~KvHas(kv, key)
           THEN /\ last' = Event("post_authorize", 400, "session_expired",
                                 <<Op("get", key)>>, NoCalls, NoCalls, NoQuery)
                /\ UNCHANGED <<kv, uuid, issued>>
           ELSE /\ uuid < MaxUUID
                /\ kv' = r.kv
                /\ uuid' = r.uuid
                /\ issued' = KvPut(issued, r.callbackState,
                                   Issue(r.callbackUrl, stateKey))
                /\ last' = [Event("post_authorize", 302, "REDIRECTED_TO_VENDOR",
                                  <<Op("get", key)>> \o r.ops, NoCalls, NoCalls,
                                  NoQuery)
                            EXCEPT !.issuedState = r.callbackState,
                                   !.setCookie =
                                       COOKIE_NAME \o "=" \o authRequest.clientId]
    /\ UNCHANGED <<variant, grants, completed, consumed, requests, resolved, tool, registered, inflight>>

\* HandlerResolve leaving the auth request in the store when it is found.
HandlerResolveKeepRequest(store, polarState) ==
    LET sKey == StateKey(polarState)
        stateData == KvGet(store, sKey)
        kv1 == KvDelete(store, sKey)
        aKey == AuthRequestKey(stateData.stateKey)
    IN  IF ~KvHas(store, sKey)
        THEN [outcome |-> "csrf_invalid", kv |-> store,
              ops |-> <<Op("get", sKey)>>, stateKey |-> Undefined]
        ELSE IF ~KvHas(kv1, aKey)
        THEN [outcome |-> "request_expired", kv |-> kv1,
              ops |-> <<Op("get", sKey), Op("delete", sKey), Op("get", aKey)>>,
              stateKey |-> stateData.stateKey]
        ELSE [outcome |-> "pass", kv |-> kv1,
              ops |-> <<Op("get", sKey), Op("delete", sKey), Op("get", aKey)>>,
              stateKey |-> stateData.stateKey]

\* HandlerResolve going on without the auth request when it is not found.
HandlerResolveNoRequest(store, polarState) ==
    LET sKey == StateKey(polarState)
        stateData == KvGet(store, sKey)
        kv1 == KvDelete(store, sKey)
        aKey == AuthRequestKey(stateData.stateKey)
    IN  IF ~KvHas(store, sKey)
        THEN [outcome |-> "csrf_invalid", kv |-> store,
              ops |-> <<Op("get", sKey)>>, stateKey |-> Undefined]
        ELSE [outcome |-> "pass", kv |-> KvDelete(kv1, aKey),
              ops |-> <<Op("get", sKey), Op("delete", sKey), Op("get", aKey),
                        Op("delete", aKey)>>,
              stateKey |-> stateData.stateKey]

\* The store steps of the handler's callback: the state entry, then the
\* auth request it links to; each is deleted right after it is found.
HandlerResolve(store, polarState) ==
    LET sKey == StateKey(polarState)
        stateData == KvGet(store, sKey)
        kv1 == KvDelete(store, sKey)
        aKey == AuthRequestKey(stateData.stateKey)
        authRequest == KvGet(kv1, aKey)
    IN  IF ~KvHas(store, sKey)
        THEN [outcome |-> "csrf_invalid", kv |-> store,
              ops |-> <<Op("get", sKey)>>, stateKey |-> Undefined]
        ELSE IF ~KvHas(kv1, aKey)
        THEN [outcome |-> "request_expired", kv |-> kv1,
              ops |-> <<Op("get", sKey), Op("delete", sKey), Op("get", aKey)>>,
              stateKey |-> stateData.stateKey]
        ELSE [outcome |-> "pass", kv |-> KvDelete(kv1, aKey),
              ops |-> <<Op("get", sKey), Op("delete", sKey), Op("get", aKey),
                        Op("delete", aKey)>>,
              stateKey |-> stateData.stateKey]

\* fetchPolarToken throws on a non-success status; the handler has no
\* try/catch, so the fault leaves the handler and the framework answers 500.
HandlerTokenFailure(ops, tokenCalls, q) ==
    [Event("callback", 500, "token_exchange_error", ops, tokenCalls, NoCalls, q)
     EXCEPT !.uncaught = TRUE]

\* The callback once both entries have been found and deleted: the token
\* exchange, the registration call and completeAuthorization.
HandlerExchange(origin, q, v, tokenResponse, registerStatus) ==
    LET tokenCalls == <<TokenCall(q.code, CallbackUrl(origin), tokenResponse)>>
        registerCalls ==
            <<RegisterCall(tokenResponse.access_token,
                           <<"mcp_user_", tokenResponse.x_user_id>>,
                           registerStatus)>>
    IN  IF ~tokenResponse.ok
        THEN /\ kv' = v.kv
             /\ last' = HandlerTokenFailure(v.ops, tokenCalls, q)
             /\ UNCHANGED <<grants, completed>>
        ELSE /\ kv' = v.kv
             /\ grants' = Append(grants,
                                 [request |-> v.stateKey,
                                  userId |-> tokenResponse.x_user_id,
                                  accessToken |-> tokenResponse.access_token])
             /\ completed' = Bump(completed, q.state)
             /\ last' = Event("callback", 302, "COMPLETED", v.ops,
                              tokenCalls, registerCalls, q)

HandlerCallback(q) ==
    /\ variant = "delegated"
    /\ last = NoEvent
    /\ LET pre == CallbackPrecheck(q)
           v == HandlerResolve(kv, q.state)
       IN  IF pre # "pass"
           THEN /\ last' = Event("callback", 400, pre, << >>, NoCalls, NoCalls, q)
                /\ UNCHANGED <<kv, grants, completed, consumed, resolved>>
           ELSE IF v.outcome # "pass"
           THEN /\ kv' = v.kv
                /\ consumed' = IF v.outcome = "csrf_invalid" THEN consumed
                               ELSE consumed \cup {q.state}
                /\ last' = Event("callback", 400, v.outcome, v.ops,
                                 NoCalls, NoCalls, q)
                /\ UNCHANGED <<grants, completed, resolved>>
           ELSE /\ consumed' = consumed \cup {q.state}
                /\ resolved' = resolved \cup {v.stateKey}
                /\ \E o \in Origins, t \in TokenResponses, r \in RegisterStatuses :
                       HandlerExchange(o, q, v, t, r)
    /\ UNCHANGED <<variant, uuid, issued, requests, tool, registered, inflight>>

-----------------------------------------------------------------------------
(* JSON values, JSON.stringify and JSON.parse. *)

JNull == [t |-> "null"]

JStr(s) == [t |-> "str", s |-> s]

\* A number, carried as its decimal literal.
JNum(digits) == [t |-> "num", s |-> digits]

JArr(items) == [t |-> "arr", items |-> items]

\* An object: the sequence of its <<key, value>> members in insertion order.
JObj(members) == [t |-> "obj", items |-> members]

\* Array.prototype.join over a sequence of strings, from index i on.
RECURSIVE Join(_, _, _)
Join(strs, sep, i) ==
    IF i > Len(strs) THEN ""
    ELSE strs[i] \o (IF i < Len(strs) THEN sep ELSE "") \o Join(strs, sep, i + 1)

\* JSON.stringify(value): the compact text.
RECURSIVE JSONstringify(_)
JSONstringify(v) ==
    CASE v.t = "null" -> "null"
      [] v.t = "str" -> "\"" \o v.s \o "\""
      [] v.t = "num" -> v.s
      [] v.t = "arr" ->
             "[" \o Join([i \in 1..Len(v.items) |-> JSONstringify(v.items[i])], ",", 1)
             \o "]"
      [] v.t = "obj" ->
             "{" \o Join([i \in 1..Len(v.items) |->
                             "\"" \o v.items[i][1] \o "\":"
                             \o JSONstringify(v.items[i][2])], ",", 1)
             \o "}"

\* The indentation of nesting level n: two spaces per level.
RECURSIVE Indent(_)
Indent(n) == IF n = 0 THEN "" ELSE "  " \o Indent(n - 1)

\* JSON.stringify(value, null, 2) of a value nested at `level`: one member per
\* line, indented by two spaces per level; empty arrays and objects stay "[]"
\* and "{}".
RECURSIVE Stringify2(_, _)
Stringify2(v, level) ==
    CASE v.t = "null" -> "null"
      [] v.t = "str" -> "\"" \o v.s \o "\""
      [] v.t = "num" -> v.s
      [] v.t = "arr" ->
             IF Len(v.items) = 0 THEN "[]"
             ELSE "[\n"
                  \o Join([i \in 1..Len(v.items) |->
                              Indent(level + 1) \o Stringify2(v.items[i], level + 1)],
                          ",\n", 1)
                  \o "\n" \o Indent(level) \o "]"
      [] v.t = "obj" ->
             IF Len(v.items) = 0 THEN "{}"
             ELSE "{\n"
                  \o Join([i \in 1..Len(v.items) |->
                              Indent(level + 1) \o "\"" \o v.items[i][1] \o "\": "
                              \o Stringify2(v.items[i][2], level + 1)],
                          ",\n", 1)
                  \o "\n" \o Indent(level) \o "}"

JSONstringifyIndented(v) == Stringify2(v, 0)

\* obj[key] of a parsed object (JNull stands for a missing member).
Member(obj, key) ==
    IF \E i \in 1..Len(obj.items) : obj.items[i][1] = key
    THEN obj.items[CHOOSE i \in 1..Len(obj.items) : obj.items[i][1] = key][2]
    ELSE JNull

HasMember(obj, key) == \E i \in 1..Len(obj.items) : obj.items[i][1] = key

-----------------------------------------------------------------------------
(* String helpers. *)

\* String.prototype.indexOf, 1-based; 0 when pat does not occur.
IndexOf(str, pat) ==
    LET hits == {i \in 1..(Len(str) - Len(pat) + 1) :
                    SubSeq(str, i, i + Len(pat) - 1) = pat}
    IN  IF hits = {} THEN 0 ELSE CHOOSE i \in hits : \A j \in hits : i <= j

\* String.prototype.replace(pat, rep) with a string pattern: the first match only.
ReplaceFirst(str, pat, rep) ==
    LET i == IndexOf(str, pat)
    IN  IF i = 0 THEN str
        ELSE SubSeq(str, 1, i - 1) \o rep \o SubSeq(str, i + Len(pat), Len(str))

\* new URL(url).pathname of an absolute URL without query or fragment.
Pathname(url) ==
    LET afterScheme == IndexOf(url, "://") + 3
        rest == SubSeq(url, afterScheme, Len(url))
        slash == IndexOf(rest, "/")
    IN  IF slash = 0 THEN "/" ELSE SubSeq(rest, slash, Len(rest))

\* `${value}` / String(value) of an optional string.
Str(value) == IF value = Undefined THEN "undefined" ELSE value

\* The characters application/x-www-form-urlencoded serialisation replaces,
\* among those the inputs can hold; letters, digits, "-", "_", "." and "*"
\* are kept.
FormEscapes ==
    " " :> "+" @@ "&" :> "%26" @@ "=" :> "%3D" @@ "+" :> "%2B" @@ "/" :> "%2F"
    @@ ":" :> "%3A" @@ "?" :> "%3F" @@ "<" :> "%3C" @@ ">" :> "%3E"

\* The serialisation of one name or value, from character i on.
RECURSIVE FormEncode(_, _)
FormEncode(str, i) ==
    IF i > Len(str) THEN ""
    ELSE LET ch == SubSeq(str, i, i)
         IN  (IF ch \in DOMAIN FormEscapes THEN FormEscapes[ch] ELSE ch)
             \o FormEncode(str, i + 1)

\* URLSearchParams.toString(): name=value pairs joined by "&", each part
\* form-encoded.
QueryString(params) ==
    Join([i \in 1..Len(params) |->
             FormEncode(params[i][1], 1) \o "=" \o FormEncode(Str(params[i][2]), 1)],
         "&", 1)

-----------------------------------------------------------------------------
(* Upstream client: polarApiRequest. *)

POLAR_API_BASE == "https://www.polaraccesslink.com/v3"

\* Largest number of resources a transaction lists.
MaxResources == 2

Digits == <<"1", "2", "3", "4", "5">>

ResourceUrl(i) ==
    "https://www.polaraccesslink.com/v3/users/42/physical-informations/" \o Digits[i]

ResourceUrls(n) == [i \in 1..n |-> JStr(ResourceUrl(i))]

PhysicalItem(i) == JObj(<< <<"id", JNum(Digits[i])>>, <<"weight", JNum("80")>> >>)

Transaction == JObj(<< <<"transaction-id", JNum("7")>>,
                       <<"resource-uri", JStr("https://www.polaraccesslink.com/v3/users/42/physical-information-transactions/7")>> >>)

ResourceList(n) == JObj(<< <<"physical-informations", JArr(ResourceUrls(n))>> >>)

Payloads == {JObj(<< <<"polar-user-id", JNum("42")>> >>), JArr(<<JStr("a"), JStr("b")>>)}

\* The JSON values the vendor answers with.
JsonValues ==
    Payloads \cup {Transaction, JObj(<< >>)}
    \cup {ResourceList(n) : n \in 0..MaxResources}
    \cup {PhysicalItem(i) : i \in 1..(MaxResources + 1)}

\* The text of each of these values.
JsonText == [v \in JsonValues |-> JSONstringify(v)]

IsJson(text) == \E v \in JsonValues : JsonText[v] = text

\* JSON.parse(text) of a text that IsJson: the value that has this text.
JSONparse(text) == CHOOSE v \in JsonValues : JsonText[v] = text

Response(ok, status, statusText, text) ==
    [ok |-> ok, status |-> status, statusText |-> statusText, text |-> text]

Failure == Response(FALSE, "500", "Internal Server Error", "upstream failure")

EmptyBody == Response(TRUE, "204", "No Content", "")

Garbage == Response(TRUE, "200", "OK", "<html>")

Ok(value) == Response(TRUE, "200", "OK", JSONstringify(value))

NoOptions == [method |-> Undefined, headers |-> << >>]

Method(m) == [method |-> m, headers |-> << >>]

\* { Authorization, Accept, ...options.headers }: later members win.
MergeHeaders(accessToken, callerHeaders) ==
    LET own == [h \in {"Authorization", "Accept"} |->
                   IF h = "Authorization" THEN "Bearer " \o accessToken
                   ELSE "application/json"]
    IN  [h \in DOMAIN own \cup DOMAIN callerHeaders |->
            IF h \in DOMAIN callerHeaders THEN callerHeaders[h] ELSE own[h]]

\* One call of polarApiRequest answered by `response`: the request it sends
\* and how it ends (a thrown Error with its message, or the returned value).
polarApiRequest(endpoint, accessToken, options, response) ==
    LET request == [url |-> POLAR_API_BASE \o endpoint,
                    method |-> IF options.method = Undefined THEN "GET"
                               ELSE options.method,
                    headers |-> MergeHeaders(accessToken, options.headers)]
    IN  IF ~response.ok
        THEN [request |-> request, response |-> response, thrown |-> TRUE,
              message |-> "Polar API error (" \o response.status \o "): "
                          \o (IF response.text # "" THEN response.text
                              ELSE response.statusText),
              value |-> JNull]
        ELSE IF response.text = ""
        THEN [request |-> request, response |-> response, thrown |-> FALSE,
              message |-> "", value |-> JNull]
        ELSE IF ~IsJson(response.text)
        THEN [request |-> request, response |-> response, thrown |-> TRUE,
              message |-> "Unexpected token in JSON", value |-> JNull]
        ELSE [request |-> request, response |-> response, thrown |-> FALSE,
              message |-> "", value |-> JSONparse(response.text)]

-----------------------------------------------------------------------------
(* User registration: registerPolarUser and the local helper's registerUser. *)

\* response.ok
StatusOk(status) == status \in 200..299

\* The POST both functions send: the member id derived from the user id.
RegisterRequest(accessToken, memberId) ==
    [url |-> POLAR_API_BASE \o "/users",
     method |-> "POST",
     headers |-> [h \in {"Content-Type", "Authorization", "Accept"} |->
                     IF h = "Authorization" THEN "Bearer " \o accessToken
                     ELSE "application/json"],
     body |-> JSONstringify(JObj(<< <<"member-id", JStr(memberId)>> >>))]

\* registerPolarUser reporting success on response.ok only.
registerPolarUserStrict(accessToken, userId, status) ==
    [request |-> RegisterRequest(accessToken, "mcp_user_" \o ToString(userId)),
     status |-> status,
     result |-> [success |-> StatusOk(status), log |-> ""]]

\* return response.ok || response.status === 409
registerPolarUser(accessToken, userId, status) ==
    [request |-> RegisterRequest(accessToken, "mcp_user_" \o ToString(userId)),
     status |-> status,
     result |-> [success |-> StatusOk(status) \/ status = 409, log |-> ""]]

\* The local helper: it returns normally on every status and reports by the
\* line it logs.
registerUser(accessToken, userId, status) ==
    [request |-> RegisterRequest(accessToken, "user_" \o ToString(userId)),
     status |-> status,
     result |-> [success |-> TRUE,
                 log |-> IF status = 409
                         THEN "User already registered with this client."
                         ELSE IF ~StatusOk(status)
                         THEN "User registration note: " \o ToString(status)
                              \o " upstream failure"
                         ELSE "User successfully registered with AccessLink."]]

\* The vendor's answer to POST /users for a user: 409 when the user is
\* already registered with this client, 200 when it registers the user now,
\* a 5xx when it fails.
VendorStatus(known, userId, fault) ==
    IF fault THEN 500 ELSE IF userId \in known THEN 409 ELSE 200

-----------------------------------------------------------------------------
(* Tool dispatcher: executePolarTool. *)

JTrue == "<true>"

JFalse == "<false>"

\* ArgTruthy with every value taken as set.
ArgTruthyAlways(value) == TRUE

\* JavaScript truthiness of an optional argument (string or boolean).
ArgTruthy(value) == value \notin {Undefined, "", JFalse}

\* What a try block came to: the upstream calls made, in order, and either
\* the thrown Error's message or the result value.
Threw(calls, message) ==
    [calls |-> calls, thrown |-> TRUE, message |-> message, value |-> JNull]

Returned(calls, value) ==
    [calls |-> calls, thrown |-> FALSE, message |-> "", value |-> value]

\* Awaited sending the request a second time when it failed.
AwaitedRetry(c) ==
    IF c.thrown THEN Threw(<<c, c>>, c.message) ELSE Returned(<<c>>, c.value)

\* await of one polarApiRequest call: its throw, or its value.
Awaited(c) ==
    IF c.thrown THEN Threw(<<c>>, c.message) ELSE Returned(<<c>>, c.value)

\* result = await polarApiRequest(endpoint, accessToken); break;
Single(endpoint, accessToken, up) ==
    Awaited(polarApiRequest(endpoint, accessToken, NoOptions, up[1]))

\* FlagParams appending a flag whenever the argument is given, true or false.
FlagParamsGiven(args) ==
    (IF args.samples # Undefined THEN << <<"samples", "true">> >> ELSE << >>)
    \o (IF args.zones # Undefined THEN << <<"zones", "true">> >> ELSE << >>)

\* params.append("samples", "true") / params.append("zones", "true") when set.
FlagParams(args) ==
    (IF ArgTruthy(args.samples) THEN << <<"samples", "true">> >> ELSE << >>)
    \o (IF ArgTruthy(args.zones) THEN << <<"zones", "true">> >> ELSE << >>)

WithQuery(path, params) ==
    IF QueryString(params) # "" THEN path \o "?" \o QueryString(params) ELSE path

\* DateEndpoint passing the date as a query parameter.
DateEndpointQuery(base, args) ==
    IF args.date # Undefined THEN base \o "?date=" \o Str(args.date) ELSE base

\* let endpoint = base; if (args.date) endpoint = `${base}/${args.date}`;
DateEndpoint(base, args) ==
    IF ArgTruthy(args.date) THEN base \o "/" \o Str(args.date) ELSE base

\* RangeEndpoint appending to before from.
RangeEndpointSwapped(base, args) ==
    base \o "?" \o QueryString(<< <<"to", args.to>>, <<"from", args.from>> >>)

\* params.append("from", args.from); params.append("to", args.to);
RangeEndpoint(base, args) ==
    base \o "?" \o QueryString(<< <<"from", args.from>>, <<"to", args.to>> >>)

\* if (args.from || args.to) { if (args.from) ...; if (args.to) ...; }
OptionalRangeEndpoint(base, suffix, args) ==
    IF ArgTruthy(args.from) \/ ArgTruthy(args.to)
    THEN base \o suffix \o "?"
         \o QueryString((IF ArgTruthy(args.from) THEN << <<"from", args.from>> >>
                         ELSE << >>)
                        \o (IF ArgTruthy(args.to) THEN << <<"to", args.to>> >>
                            ELSE << >>))
    ELSE base

\* The for loop over the paths of the listed resources: each is fetched in
\* turn, answered by up[first], up[first + 1], ...; the first failing fetch
\* ends the loop by its throw.
RECURSIVE FetchResources(_, _, _, _, _)
FetchResources(paths, i, accessToken, up, first) ==
    IF i > Len(paths) THEN Returned(<< >>, JArr(<< >>))
    ELSE LET c == polarApiRequest(paths[i], accessToken, NoOptions,
                                  up[first + i - 1])
             rest == FetchResources(paths, i + 1, accessToken, up, first)
         IN  IF c.thrown THEN Threw(<<c>>, c.message)
             ELSE IF rest.thrown THEN Threw(<<c>> \o rest.calls, rest.message)
             ELSE Returned(<<c>> \o rest.calls,
                           JArr(<<c.value>> \o rest.value.items))

\* case "get_physical_info": create the transaction, list it, fetch each
\* resource, commit. up[1] answers the create call, up[2] the list call,
\* then one answer per fetch, then the commit's.
PhysicalInfo(accessToken, userId, up) ==
    LET txPath == "/users/" \o Str(userId) \o "/physical-information-transactions"
        create == polarApiRequest(txPath, accessToken, Method("POST"), up[1])
        txId == Member(create.value, "transaction-id")
        txItemPath == txPath \o "/" \o txId.s
        list == polarApiRequest(txItemPath, accessToken, NoOptions, up[2])
        urls == Member(list.value, "physical-informations")
        noResources == list.value = JNull \/ urls = JNull \/ Len(urls.items) = 0
        emptyCommit == polarApiRequest(txItemPath, accessToken, Method("PUT"), up[3])
        paths == [i \in 1..Len(urls.items) |->
                     ReplaceFirst(Pathname(urls.items[i].s), "/v3", "")]
        fetched == FetchResources(paths, 1, accessToken, up, 3)
        commit == polarApiRequest(txItemPath, accessToken, Method("PUT"),
                                  up[3 + Len(urls.items)])
        physicalInfos == fetched.value.items
    IN  IF ~ArgTruthy(userId)
        THEN Threw(<< >>, "User ID is required for get_physical_info. Set POLAR_USER_ID environment variable.")
        ELSE IF create.thrown THEN Threw(<<create>>, create.message)
        ELSE IF create.value = JNull
        THEN Returned(<<create>>,
                      JObj(<< <<"message", JStr("No new physical information available.")>> >>))
        ELSE IF list.thrown THEN Threw(<<create, list>>, list.message)
        ELSE IF noResources
        THEN Returned(<<create, list, emptyCommit>>,
                      JObj(<< <<"message", JStr("No physical information resources found.")>> >>))
        ELSE IF fetched.thrown
        THEN Threw(<<create, list>> \o fetched.calls, fetched.message)
        ELSE Returned(<<create, list>> \o fetched.calls \o <<commit>>,
                      IF Len(physicalInfos) = 1 THEN physicalInfos[1]
                      ELSE JArr(physicalInfos))

\* The switch of executePolarTool inside its try block.
ToolBody(toolName, args, accessToken, userId, up) ==
    CASE toolName = "get_user_info" ->
             IF ~ArgTruthy(userId)
             THEN Threw(<< >>, "User ID is required for get_user_info. Set POLAR_USER_ID environment variable.")
             ELSE Single("/users/" \o userId, accessToken, up)
      [] toolName = "get_exercises" ->
             Single(WithQuery("/exercises", FlagParams(args)), accessToken, up)
      [] toolName = "get_exercise" ->
             Single(WithQuery("/exercises/" \o Str(args.exerciseId), FlagParams(args)),
                    accessToken, up)
      [] toolName = "get_nightly_recharge" ->
             Single(DateEndpoint("/users/nightly-recharge", args), accessToken, up)
      [] toolName = "get_sleep" ->
             Single(DateEndpoint("/users/sleep", args), accessToken, up)
      [] toolName = "get_daily_activity" ->
             Single(DateEndpoint("/users/activities", args), accessToken, up)
      [] toolName = "get_physical_info" -> PhysicalInfo(accessToken, userId, up)
      [] toolName = "get_continuous_heart_rate" ->
             Single("/users/continuous-heart-rate/" \o Str(args.date), accessToken, up)
      [] toolName = "get_continuous_heart_rate_range" ->
             Single(RangeEndpoint("/users/continuous-heart-rate", args), accessToken, up)
      [] toolName = "get_cardio_load" ->
             Single(DateEndpoint("/users/cardio-load", args), accessToken, up)
      [] toolName = "get_cardio_load_range" ->
             Single(RangeEndpoint("/users/cardio-load/date", args), accessToken, up)
      [] toolName = "get_cardio_load_history" ->
             Single("/users/cardio-load/period/" \o Str(args.period_type) \o "/"
                    \o Str(args.count), accessToken, up)
      [] toolName = "get_activity_samples" ->
             Single(DateEndpoint("/users/activities/samples", args), accessToken, up)
      [] toolName = "get_activity_samples_range" ->
             Single(RangeEndpoint("/users/activities/samples", args), accessToken, up)
      [] toolName = "get_sleepwise_alertness" ->
             Single(OptionalRangeEndpoint("/users/sleepwise/alertness", "/date", args),
                    accessToken, up)
      [] toolName = "get_sleepwise_circadian_bedtime" ->
             Single(OptionalRangeEndpoint("/users/sleepwise/circadian-bedtime", "/date",
                                          args), accessToken, up)
      [] toolName = "get_body_temperature" ->
             Single(OptionalRangeEndpoint("/users/biosensing/bodytemperature", "", args),
                    accessToken, up)
      [] toolName = "get_skin_temperature" ->
             Single(OptionalRangeEndpoint("/users/biosensing/skintemperature", "", args),
                    accessToken, up)
      [] toolName = "get_spo2" ->
             Single(OptionalRangeEndpoint("/users/biosensing/spo2", "", args),
                    accessToken, up)
      [] toolName = "get_exercise_fit" ->
             Single("/exercises/" \o Str(args.exerciseId) \o "/fit", accessToken, up)
      [] toolName = "get_exercise_tcx" ->
             Single("/exercises/" \o Str(args.exerciseId) \o "/tcx", accessToken, up)
      [] toolName = "get_exercise_gpx" ->
             Single("/exercises/" \o Str(args.exerciseId) \o "/gpx", accessToken, up)
      [] toolName = "get_daily_activity_range" ->
             Single(RangeEndpoint("/users/activities", args), accessToken, up)
      [] toolName = "get_sleep_range" ->
             Single(RangeEndpoint("/users/sleep", args), accessToken, up)
      [] toolName = "get_nightly_recharge_range" ->
             Single(RangeEndpoint("/users/nightly-recharge", args), accessToken, up)
      [] OTHER -> Threw(<< >>, "Unknown tool: " \o toolName)

TextContent(text) == <<[type |-> "text", text |-> text]>>

\* The envelope of a normal payload: no isError member.
Payload(text) == [content |-> TextContent(text)]

\* The envelope of an error payload.
ErrorPayload(text) == [content |-> TextContent(text), isError |-> TRUE]

\* A handler without a catch block: a thrown Error leaves the call.
Uncaught(body) ==
    [calls |-> body.calls,
     result |-> IF body.thrown THEN [escaped |-> body.message]
                ELSE Payload(JSONstringifyIndented(body.value))]

\* return { content: [{ type: "text", text: JSON.stringify(result, null, 2) }] }
\* on a normal end of the try block; the catch block's error payload, its
\* text the prefix and error.message, on a thrown Error.
Caught(prefix, body) ==
    [calls |-> body.calls,
     result |-> IF body.thrown THEN ErrorPayload(prefix \o body.message)
                ELSE Payload(JSONstringifyIndented(body.value))]

\* executePolarTool without its catch block.
executePolarToolNoCatch(toolName, args, accessToken, userId, up) ==
    Uncaught(ToolBody(toolName, args, accessToken, userId, up))

\* try { switch ...; return payload } catch (error) { return error payload }
executePolarTool(toolName, args, accessToken, userId, up) ==
    Caught("Error: ", ToolBody(toolName, args, accessToken, userId, up))

-----------------------------------------------------------------------------
(* Hosted tool handlers: MyMCP.init and createPolarServer in the worker. *)

\* The try block of a hosted tool handler. The handlers build the same
\* endpoints as the cases of executePolarTool, except get_user_info and
\* get_physical_info, which need no user id.
McpToolBody(toolName, args, accessToken, up) ==
    CASE toolName = "get_user_info" -> Single("/users/me", accessToken, up)
      [] toolName = "get_physical_info" ->
             Single("/users/physical-information", accessToken, up)
      [] OTHER -> ToolBody(toolName, args, accessToken, Undefined, up)

\* try { ...; return payload } catch (error) { return error payload }
McpTool(toolName, args, accessToken, up) ==
    Caught("Error: ", McpToolBody(toolName, args, accessToken, up))

-----------------------------------------------------------------------------
(* Local stdio server: the get_physical_info tool handler. *)

\* The handler's try block. getUserId() throws when POLAR_USER_ID is unset;
\* reading a member of a null response throws a TypeError; the commit calls
\* are awaited without a catch.
LocalPhysicalInfoBody(accessToken, userId, up) ==
    LET txPath == "/users/" \o Str(userId) \o "/physical-information-transactions"
        create == polarApiRequest(txPath, accessToken, Method("POST"), up[1])
        transactionId == Member(create.value, "transaction-id")
        txItemPath == txPath \o "/" \o Str(IF transactionId = JNull THEN Undefined
                                          ELSE transactionId.s)
        list == polarApiRequest(txItemPath, accessToken, NoOptions, up[2])
        physicalInfoUrls == Member(list.value, "physical-informations")
        emptyCommit == polarApiRequest(txItemPath, accessToken, Method("PUT"), up[3])
        paths == [i \in 1..Len(physicalInfoUrls.items) |->
                     ReplaceFirst(physicalInfoUrls.items[i].s,
                                  "https://www.polaraccesslink.com", "")]
        fetched == FetchResources(paths, 1, accessToken, up, 3)
        commit == polarApiRequest(txItemPath, accessToken, Method("PUT"),
                                  up[3 + Len(physicalInfoUrls.items)])
    IN  IF ~ArgTruthy(userId)
        THEN Threw(<< >>, "POLAR_USER_ID environment variable is required. Please set it with your Polar user ID (x_user_id from auth flow).")
        ELSE IF create.thrown THEN Threw(<<create>>, create.message)
        ELSE IF create.value = JNull
        THEN Threw(<<create>>, "Cannot read properties of null (reading 'transaction-id')")
        ELSE IF list.thrown THEN Threw(<<create, list>>, list.message)
        ELSE IF list.value = JNull
        THEN Threw(<<create, list>>,
                   "Cannot read properties of null (reading 'physical-informations')")
        ELSE IF physicalInfoUrls = JNull \/ Len(physicalInfoUrls.items) = 0
        THEN IF emptyCommit.thrown
             THEN Threw(<<create, list, emptyCommit>>, emptyCommit.message)
             ELSE [calls |-> <<create, list, emptyCommit>>, thrown |-> FALSE,
                   message |-> "No new physical information data available.",
                   value |-> JNull]
        ELSE IF fetched.thrown
        THEN Threw(<<create, list>> \o fetched.calls, fetched.message)
        ELSE IF commit.thrown
        THEN Threw(<<create, list>> \o fetched.calls \o <<commit>>, commit.message)
        ELSE Returned(<<create, list>> \o fetched.calls \o <<commit>>, fetched.value)

\* The local server's get_user_info handler: getUserId() throws inside the
\* try block when POLAR_USER_ID is unset or empty.
LocalUserInfo(accessToken, userId, up) ==
    Caught("Error fetching user info: ",
           IF ~ArgTruthy(userId)
           THEN Threw(<< >>, "POLAR_USER_ID environment variable is required. Please set it with your Polar user ID (x_user_id from auth flow).")
           ELSE Single("/users/" \o userId, accessToken, up))

\* The handler's returns: the fixed text when no data is available, the
\* fetched data otherwise; its catch block on a thrown Error.
LocalPhysicalInfoResult(body) ==
    IF ~body.thrown /\ body.message # ""
    THEN [calls |-> body.calls, result |-> Payload(body.message)]
    ELSE Caught("Error fetching physical info: ", body)

LocalPhysicalInfo(accessToken, userId, up) ==
    LocalPhysicalInfoResult(LocalPhysicalInfoBody(accessToken, userId, up))

-----------------------------------------------------------------------------
(* Tool invocations and the answers of the vendor API. *)

ToolNames ==
    {"get_user_info", "get_exercises", "get_exercise", "get_nightly_recharge",
     "get_sleep", "get_daily_activity", "get_physical_info",
     "get_continuous_heart_rate", "get_continuous_heart_rate_range",
     "get_cardio_load", "get_cardio_load_range", "get_cardio_load_history",
     "get_activity_samples", "get_activity_samples_range",
     "get_sleepwise_alertness", "get_sleepwise_circadian_bedtime",
     "get_body_temperature", "get_skin_temperature", "get_spo2",
     "get_exercise_fit", "get_exercise_tcx", "get_exercise_gpx",
     "get_daily_activity_range", "get_sleep_range", "get_nightly_recharge_range"}

\* The tools whose schema requires from and to.
RangeTools ==
    {"get_continuous_heart_rate_range", "get_cardio_load_range",
     "get_activity_samples_range", "get_daily_activity_range", "get_sleep_range",
     "get_nightly_recharge_range"}

OptionalRangeTools ==
    {"get_sleepwise_alertness", "get_sleepwise_circadian_bedtime",
     "get_body_temperature", "get_skin_temperature", "get_spo2"}

DateTools ==
    {"get_nightly_recharge", "get_sleep", "get_daily_activity", "get_cardio_load",
     "get_activity_samples", "get_continuous_heart_rate"}

FlagTools == {"get_exercises", "get_exercise"}

\* Names a caller can pass: the table's and one that is not in it.
InvokedNames == ToolNames \cup {"get_weather"}

\* The arguments a tool's case reads take each of their values; the others
\* are left out of the call.
ArgsOf(toolName) ==
    {[date |-> d, from |-> f, to |-> t, samples |-> s, zones |-> z,
      exerciseId |-> "ex1", period_type |-> "days", count |-> "7"] :
        d \in IF toolName \in DateTools THEN {Undefined, "", "2024-01-15"}
              ELSE {Undefined},
        f \in IF toolName \in RangeTools \cup OptionalRangeTools
              THEN {Undefined, "2024-01-01", "2024-02-01"} ELSE {Undefined},
        t \in IF toolName \in RangeTools \cup OptionalRangeTools
              THEN {Undefined, "2024-01-07"} ELSE {Undefined},
        s \in IF toolName \in FlagTools THEN {Undefined, JTrue, JFalse}
              ELSE {Undefined},
        z \in IF toolName \in FlagTools THEN {Undefined, JTrue, JFalse}
              ELSE {Undefined}}

\* The arguments that pass the zod schema of a hosted tool: the required
\* strings are present (z.string() accepts the empty string).
McpArgsOf(toolName) ==
    {a \in ArgsOf(toolName) :
        /\ toolName \in RangeTools => (a.from # Undefined /\ a.to # Undefined)
        /\ toolName = "get_continuous_heart_rate" => a.date # Undefined}

\* The tools createPolarServer registers in the opaque-session worker.
SessionTools ==
    {"get_user_info", "get_exercises", "get_exercise", "get_nightly_recharge",
     "get_sleep", "get_daily_activity", "get_physical_info"}

\* A call with no arguments.
NoArgs == CHOOSE a \in ArgsOf("get_physical_info") : TRUE

UserIds == {Undefined, "", "42"}

UserIdsOf(toolName) ==
    IF toolName \in {"get_user_info", "get_physical_info"} THEN UserIds ELSE {"42"}

\* Answers to the single request of a one-call tool.
SingleAnswers == {<<r>> : r \in {Failure, EmptyBody, Garbage} \cup {Ok(v) : v \in Payloads}}

\* Answers to the calls of get_physical_info, in the order they are made.
PhysicalAnswers ==
    {<<c, l>> \o rest :
        c \in {Failure, EmptyBody, Ok(Transaction)},
        l \in {Failure, EmptyBody, Ok(JObj(<< >>))}
              \cup {Ok(ResourceList(n)) : n \in 0..MaxResources},
        rest \in [1..(MaxResources + 1) -> {"fail", "empty", "item"}]}

Answer(kind, i) ==
    CASE kind = "fail" -> Failure
      [] kind = "empty" -> EmptyBody
      [] kind = "item" -> Ok(PhysicalItem(i))

\* up[i] for the i-th call of a get_physical_info invocation.
PhysicalUp(a) ==
    [i \in 1..Len(a) |-> IF i <= 2 THEN a[i] ELSE Answer(a[i], i - 2)]

AnswersOf(toolName) ==
    IF toolName = "get_physical_info"
    THEN {PhysicalUp(a) : a \in PhysicalAnswers}
    ELSE SingleAnswers

AccessToken == "tokA"

Idle == [pc |-> "idle"]

Invocation(impl, toolName, args, userId, run) ==
    [pc |-> "done", impl |-> impl, toolName |-> toolName, args |-> args,
     userId |-> userId, calls |-> run.calls, result |-> run.result]

ToolFrame ==
    <<variant, kv, uuid, grants, completed, issued, consumed, requests, resolved,
      last, registered, inflight>>

\* One invocation of executePolarTool, the vendor answering its calls by up.
ExecutePolarTool(toolName, args, userId, up) ==
    /\ tool = Idle
    /\ tool' = Invocation("executePolarTool", toolName, args, userId,
                          executePolarTool(toolName, args, AccessToken, userId, up))
    /\ UNCHANGED ToolFrame

\* One invocation of the local server's get_physical_info handler.
LocalGetPhysicalInfo(userId, up) ==
    /\ tool = Idle
    /\ tool' = Invocation("local", "get_physical_info", NoArgs, userId, LocalPhysicalInfo(AccessToken, userId, up))
    /\ UNCHANGED ToolFrame

\* One invocation of the local server's get_user_info handler.
LocalGetUserInfo(userId, up) ==
    /\ tool = Idle
    /\ tool' = Invocation("local", "get_user_info", NoArgs, userId,
                          LocalUserInfo(AccessToken, userId, up))
    /\ UNCHANGED ToolFrame

\* One invocation of a tool handler registered by MyMCP.init, with arguments
\* that passed its schema.
McpInvoke(toolName, args, up) ==
    /\ tool = Idle
    /\ tool' = Invocation("MyMCP", toolName, args, Undefined,
                          McpTool(toolName, args, AccessToken, up))
    /\ UNCHANGED ToolFrame

\* Headers a caller of polarApiRequest can pass in options.headers: none, a
\* header of its own, or one with the name of a header the client sets.
CallerHeaders ==
    {<< >>, "X-Request-Id" :> "r1", "Authorization" :> "Bearer other",
     "Accept" :> "text/xml"}

CallerOptions ==
    {[method |-> m, headers |-> h] : m \in {Undefined, "POST"}, h \in CallerHeaders}

\* One direct call of the exported polarApiRequest.
CallPolarApiRequest(endpoint, options, response) ==
    /\ tool = Idle
    /\ LET c == polarApiRequest(endpoint, AccessToken, options, response)
       IN  tool' = Invocation("polarApiRequest", endpoint, NoArgs, Undefined,
                              [calls |-> <<c>>,
                               result |-> IF c.thrown THEN [thrown |-> c.message]
                                          ELSE [value |-> c.value]])
    /\ UNCHANGED ToolFrame

\* The x_user_id values of the users who register.
RegisteringUsers == {11, 22}

\* One registration call, the vendor answering by what it has registered.
Register(impl, userId, fault) ==
    /\ tool = Idle
    /\ LET status == VendorStatus(registered, userId, fault)
           r == IF impl = "registerUser"
                THEN registerUser(AccessToken, userId, status)
                ELSE registerPolarUser(AccessToken, userId, status)
       IN  /\ tool' = Invocation(impl, "", NoArgs, userId,
                                 [calls |-> <<[request |-> r.request,
                                               response |-> [status |-> r.status],
                                               thrown |-> FALSE, message |-> "",
                                               value |-> JNull]>>,
                                  result |-> r.result])
           /\ registered' = IF StatusOk(status) THEN registered \cup {userId}
                            ELSE registered
    /\ UNCHANGED <<variant, kv, uuid, grants, completed, issued, consumed,
                   requests, resolved, last, inflight>>

\* The envelope goes back to the caller.
ToolReturn ==
    /\ tool # Idle
    /\ tool' = Idle
    /\ UNCHANGED ToolFrame

-----------------------------------------------------------------------------
(* Opaque-session worker: the /mcp and /sse routes. *)

\* WorkerSessionLookup handing every request on, with a fixed token.
WorkerSessionLookupOpen(store, sessionId) ==
    [outcome |-> "session", ops |-> <<Op("get", SessionKey(sessionId))>>,
     accessToken |-> "tokA"]

\* url.searchParams.get("session"), then the store lookup of the session
\* entry and the access token parsed from it.
WorkerSessionLookup(store, sessionId) ==
    IF ~Truthy(sessionId)
    THEN [outcome |-> "missing_session", ops |-> << >>, accessToken |-> Undefined]
    ELSE IF ~KvHas(store, SessionKey(sessionId))
    THEN [outcome |-> "session_expired", ops |-> <<Op("get", SessionKey(sessionId))>>,
          accessToken |-> Undefined]
    ELSE [outcome |-> "session", ops |-> <<Op("get", SessionKey(sessionId))>>,
          accessToken |-> KvGet(store, SessionKey(sessionId)).accessToken]

\* A request to /mcp or /sse carrying one tool call: 401 with the authorize
\* URL unless the session is found; otherwise the server is created with
\* the session's access token and the transport runs the tool.
WorkerMcp(origin, sessionId, toolName, up) ==
    /\ variant = "opaque"
    /\ last = NoEvent
    /\ LET s == WorkerSessionLookup(kv, sessionId)
           run == McpTool(toolName, NoArgs, s.accessToken, up)
       IN  last' = IF s.outcome # "session"
                   THEN [Event("mcp", 401, s.outcome, s.ops, NoCalls, NoCalls, NoQuery)
                         EXCEPT !.sessionParam = sessionId,
                                !.authorizeUrl = origin \o "/authorize"]
                   ELSE [Event("mcp", 200, "HANDED_TO_TRANSPORT", s.ops, NoCalls,
                               NoCalls, NoQuery)
                         EXCEPT !.sessionParam = sessionId,
                                !.toolCalls = run.calls]
    /\ UNCHANGED <<variant, kv, uuid, grants, completed, issued, consumed, requests,
                   resolved, tool, registered, inflight>>

-----------------------------------------------------------------------------
(* The store's TTL: an entry written with expirationTtl can vanish. *)

Expire(key) ==
    /\ last = NoEvent
    /\ key \in DOMAIN kv
    /\ kv' = KvDelete(kv, key)
    /\ UNCHANGED <<variant, uuid, grants, completed, issued, consumed, requests,
                   resolved, last, tool, registered, inflight>>

\* The response of the handled request goes out; the worker is idle again.
Deliver ==
    /\ last # NoEvent
    /\ last' = NoEvent
    /\ UNCHANGED <<variant, kv, uuid, grants, completed, issued, consumed,
                   requests, resolved, tool, registered, inflight>>

NoTool == [pc |-> "none"]

\* No callback is handled step by step.
NoCallbacks == << >>

Init ==
    /\ variant \in Variants
    /\ kv = << >>
    /\ uuid = 0
    /\ grants = << >>
    /\ completed = [t \in Tokens |-> 0]
    /\ issued = << >>
    /\ consumed = {}
    /\ requests = {}
    /\ resolved = {}
    /\ last = NoEvent
    /\ tool = NoTool
    /\ registered = {}
    /\ inflight = NoCallbacks

Queries == {Query(c, s, e) : c \in CodeParams, s \in StateParams, e \in ErrorParams}

\* Values of the session parameter: absent, empty, or an id.
SessionParams == {Undefined, ""} \cup Tokens

\* The tool calls made over a session in the runs checked.
SessionCalls == {"get_user_info", "get_sleep"}

Next ==
    \/ \E o \in Origins : WorkerAuthorize(o)
    \/ \E q \in Queries : WorkerCallback(q)
    \/ \E o \in Origins, c \in ClientIds, k \in Cookies : HandlerGetAuthorize(o, c, k)
    \/ \E o \in Origins, s \in Tokens \cup {Undefined} : HandlerPostAuthorize(o, s)
    \/ \E q \in Queries : HandlerCallback(q)
    \/ \E o \in Origins, i \in SessionParams, n \in SessionCalls,
          up \in {<<Failure>>, <<Ok(JObj(<< >>))>>} : WorkerMcp(o, i, n, up)
    \/ \E k \in DOMAIN kv : Expire(k)
    \/ Deliver

Spec == Init /\ [][Next]_vars

InitTool ==
    /\ variant = "opaque"
    /\ kv = << >>
    /\ uuid = 0
    /\ grants = << >>
    /\ completed = [t \in Tokens |-> 0]
    /\ issued = << >>
    /\ consumed = {}
    /\ requests = {}
    /\ resolved = {}
    /\ last = NoEvent
    /\ tool = Idle
    /\ registered = {}
    /\ inflight = NoCallbacks

NextTool ==
    \/ \E n \in InvokedNames :
           \E a \in ArgsOf(n), u \in UserIdsOf(n), up \in AnswersOf(n) :
               ExecutePolarTool(n, a, u, up)
    \/ \E n \in ToolNames :
           \E a \in McpArgsOf(n), up \in SingleAnswers : McpInvoke(n, a, up)
    \/ \E u \in UserIds, up \in AnswersOf("get_physical_info") :
           LocalGetPhysicalInfo(u, up)
    \/ \E u \in UserIds, up \in AnswersOf("get_user_info") :
           LocalGetUserInfo(u, up)
    \/ \E i \in {"registerPolarUser", "registerUser"}, u \in RegisteringUsers,
          f \in BOOLEAN : Register(i, u, f)
    \/ \E o \in CallerOptions, r \in {Failure, EmptyBody, Ok(JObj(<< >>))} :
           CallPolarApiRequest("/users/42", o, r)
    \/ ToolReturn

SpecTool == InitTool /\ [][NextTool]_vars

-----------------------------------------------------------------------------
(* Concurrent callbacks: the handler of GET /callback step by step, one    *)
(* step per awaited call, for requests that are handled at the same time.  *)

\* The callback requests handled at the same time.
Procs == {1, 2}

Waiting == [pc |-> "idle"]

\* A callback request at position pc of the handler.
At(pc, q, stateKey, outcome) ==
    [pc |-> pc, query |-> q, stateKey |-> stateKey, outcome |-> outcome]

RaceFrame == <<variant, issued, requests, last, tool, registered>>

\* The request arrives: the checks of its parameters, before any store access.
CallbackArrive(p, q) ==
    /\ inflight[p] = Waiting
    /\ inflight' = [inflight EXCEPT ![p] =
                       IF CallbackPrecheck(q) # "pass"
                       THEN At("done", q, Undefined, CallbackPrecheck(q))
                       ELSE At("get_state", q, Undefined, Undefined)]
    /\ UNCHANGED <<kv, uuid, grants, completed, consumed, resolved>>
    /\ UNCHANGED RaceFrame

\* await OAUTH_KV.get(`state:${state}`) and the check of what it returned.
CallbackGetState(p) ==
    /\ inflight[p].pc = "get_state"
    /\ LET q == inflight[p].query
           key == StateKey(q.state)
       IN  inflight' = [inflight EXCEPT ![p] =
                           IF ~KvHas(kv, key)
                           THEN At("done", q, Undefined, "csrf_invalid")
                           ELSE At("delete_state", q,
                                   IF variant = "delegated" THEN kv[key].stateKey
                                   ELSE Undefined,
                                   Undefined)]
    /\ UNCHANGED <<kv, uuid, grants, completed, consumed, resolved>>
    /\ UNCHANGED RaceFrame

\* await OAUTH_KV.delete(`state:${state}`)
CallbackDeleteState(p) ==
    /\ inflight[p].pc = "delete_state"
    /\ kv' = KvDelete(kv, StateKey(inflight[p].query.state))
    /\ consumed' = consumed \cup {inflight[p].query.state}
    /\ inflight' = [inflight EXCEPT ![p].pc =
                       IF variant = "delegated" THEN "get_request" ELSE "exchange"]
    /\ UNCHANGED <<uuid, grants, completed, resolved>>
    /\ UNCHANGED RaceFrame

\* await OAUTH_KV.get(`auth_request:${stateData.stateKey}`) and its check.
CallbackGetRequest(p) ==
    /\ inflight[p].pc = "get_request"
    /\ inflight' = [inflight EXCEPT ![p] =
                       IF ~KvHas(kv, AuthRequestKey(inflight[p].stateKey))
                       THEN At("done", @.query, @.stateKey, "request_expired")
                       ELSE At("delete_request", @.query, @.stateKey, Undefined)]
    /\ UNCHANGED <<kv, uuid, grants, completed, consumed, resolved>>
    /\ UNCHANGED RaceFrame

\* await OAUTH_KV.delete(`auth_request:${stateData.stateKey}`)
CallbackDeleteRequest(p) ==
    /\ inflight[p].pc = "delete_request"
    /\ kv' = KvDelete(kv, AuthRequestKey(inflight[p].stateKey))
    /\ resolved' = resolved \cup {inflight[p].stateKey}
    /\ inflight' = [inflight EXCEPT ![p].pc = "exchange"]
    /\ UNCHANGED <<uuid, grants, completed, consumed>>
    /\ UNCHANGED RaceFrame

\* The token exchange and what follows it: the session entry in the opaque
\* worker, completeAuthorization in the delegated handler.
CallbackExchange(p, tokenResponse) ==
    /\ inflight[p].pc = "exchange"
    /\ IF ~tokenResponse.ok
       THEN /\ inflight' = [inflight EXCEPT ![p].pc = "done",
                                            ![p].outcome = "token_exchange_error"]
            /\ UNCHANGED <<kv, uuid, grants, completed>>
       ELSE /\ inflight' = [inflight EXCEPT ![p].pc = "done",
                                            ![p].outcome = "COMPLETED"]
            /\ completed' = Bump(completed, inflight[p].query.state)
            /\ IF variant = "opaque"
               THEN /\ uuid < MaxUUID
                    /\ kv' = KvPut(kv, SessionKey(RandomUUID(uuid + 1)),
                                   [accessToken |-> tokenResponse.access_token,
                                    userId |-> tokenResponse.x_user_id])
                    /\ uuid' = uuid + 1
                    /\ UNCHANGED grants
               ELSE /\ grants' = Append(grants,
                                        [request |-> inflight[p].stateKey,
                                         userId |-> tokenResponse.x_user_id,
                                         accessToken |-> tokenResponse.access_token])
                    /\ UNCHANGED <<kv, uuid>>
    /\ UNCHANGED <<consumed, resolved>>
    /\ UNCHANGED RaceFrame

\* The response goes out.
CallbackRespond(p) ==
    /\ inflight[p].pc = "done"
    /\ inflight' = [inflight EXCEPT ![p] = Waiting]
    /\ UNCHANGED <<kv, uuid, grants, completed, consumed, resolved>>
    /\ UNCHANGED RaceFrame

\* The callbacks the vendor's redirect produces: a code and a state.
RaceQueries == {Query(c, s, Undefined) : c \in {Undefined, "code1"}, s \in Tokens}

InitRace ==
    /\ variant \in Variants
    /\ kv = << >>
    /\ uuid = 0
    /\ grants = << >>
    /\ completed = [t \in Tokens |-> 0]
    /\ issued = << >>
    /\ consumed = {}
    /\ requests = {}
    /\ resolved = {}
    /\ last = NoEvent
    /\ tool = NoTool
    /\ registered = {}
    /\ inflight = [p \in Procs |-> Waiting]

NextRace ==
    \/ WorkerAuthorize("https://a.example")
    \/ \E k \in Cookies : HandlerGetAuthorize("https://a.example", "c1", k)
    \/ \E s \in Tokens : HandlerPostAuthorize("https://a.example", s)
    \/ Deliver
    \/ \E p \in Procs, q \in RaceQueries : CallbackArrive(p, q)
    \/ \E p \in Procs : CallbackGetState(p)
    \/ \E p \in Procs : CallbackDeleteState(p)
    \/ \E p \in Procs : CallbackGetRequest(p)
    \/ \E p \in Procs : CallbackDeleteRequest(p)
    \/ \E p \in Procs, t \in TokenResponses : CallbackExchange(p, t)
    \/ \E p \in Procs : CallbackRespond(p)

SpecRace == InitRace /\ [][NextRace]_vars

-----------------------------------------------------------------------------
(* Properties of the authorization flows. *)

\* The step is the handling of a /callback request.
CallbackStep == last = NoEvent /\ last'.route = "callback"

\* The handled callback found and deleted the state entry its query names.
FoundState(e) ==
    /\ e.route = "callback"
    /\ Len(e.kvOps) >= 2
    /\ e.kvOps[1] = Op("get", StateKey(e.query.state))
    /\ e.kvOps[2] = Op("delete", StateKey(e.query.state))

ExchangeOk(e) == Len(e.tokenCalls) = 1 /\ e.tokenCalls[1].ok

NoSessionOrGrant == grants' = grants /\ last'.session = Undefined

StatesOf(r) == {t \in DOMAIN issued : issued[t].stateKey = r}

\* C2 as stated: for every auth request stored, a state entry linked to it
\* has been stored too, and either both have been consumed by a callback or
\* neither has.
C2_Original ==
    variant = "delegated" =>
        \A r \in requests :
            /\ StatesOf(r) # {}
            /\ \A t \in StatesOf(r) : t \in consumed <=> r \in resolved

\* C2, amended: a state entry is created only for an auth request whose
\* entry is in the store at that moment (both are present after the request
\* that stores the state), and a callback deletes an auth request only
\* together with a state entry linked to it; an auth request can be in the
\* store with no state entry (approval pending), and a state entry can be
\* consumed while its auth request is gone.
C2_Paired ==
    /\ [](variant = "delegated" =>
            /\ \A t \in DOMAIN issued : issued[t].stateKey \in requests
            /\ \A r \in resolved : StatesOf(r) \cap consumed # {}
            /\ \A r \in resolved : ~KvHas(kv, AuthRequestKey(r)))
    /\ [][variant = "delegated" =>
            \A t \in Tokens :
                (~KvHas(kv, StateKey(t)) /\ KvHas(kv', StateKey(t)))
                => (/\ t \in DOMAIN issued'
                    /\ KvHas(kv', AuthRequestKey(issued'[t].stateKey))
                    /\ kv'[StateKey(t)].stateKey = issued'[t].stateKey)]_vars

\* C2 witness: a callback has consumed an auth request and a state linked to it.
C2_Witness ==
    /\ variant = "delegated"
    /\ last.outcome = "COMPLETED"
    /\ \E r \in resolved : StatesOf(r) \cap consumed # {}

\* What a rejected callback must leave alone: no store access, no token
\* exchange, no registration, no session, no grant.
Untouched(e) ==
    /\ e.kvOps = << >>
    /\ e.tokenCalls = NoCalls
    /\ e.registerCalls = NoCalls
    /\ e.session = Undefined

\* C6 as stated: a callback whose query has an error parameter, whatever its
\* value, is answered 400 with no store access, exchange, registration,
\* session or grant.
C6_Original ==
    (last.route = "callback" /\ last.query.error # Undefined)
    => (last.status = 400 /\ Untouched(last))

\* C6, amended: a callback whose query carries a non-empty error parameter
\* is answered 400 in both variants, whatever code and state it carries,
\* with no store read or delete, no token exchange, no registration call and
\* no session or grant.
C6_VendorDenied ==
    /\ []((last.route = "callback" /\ Truthy(last.query.error))
          => (last.status = 400 /\ last.outcome = "vendor_denied" /\ Untouched(last)))
    /\ [][(CallbackStep /\ Truthy(last'.query.error))
          => (kv' = kv /\ grants' = grants /\ uuid' = uuid)]_vars

\* C6 witness: a callback carrying an error, a code and a stored state has
\* been rejected.
C6_Witness ==
    /\ last.outcome = "vendor_denied"
    /\ Truthy(last.query.code)
    /\ Truthy(last.query.state)
    /\ KvHas(kv, StateKey(last.query.state))

\* C7: a callback with a code and a state (and no error) whose state entry is
\* not in the store is answered 400 csrf_invalid; the store is unchanged, the
\* only store operation is the get that missed, and no token exchange,
\* session or grant follows.
C7_UnknownState ==
    [][(CallbackStep /\ CallbackPrecheck(last'.query) = "pass"
        /\ ~KvHas(kv, StateKey(last'.query.state)))
       => (/\ last'.status = 400
           /\ last'.outcome = "csrf_invalid"
           /\ kv' = kv
           /\ last'.kvOps = <<Op("get", StateKey(last'.query.state))>>
           /\ last'.tokenCalls = NoCalls
           /\ last'.registerCalls = NoCalls
           /\ NoSessionOrGrant)]_vars

\* C7 witness: a callback with an unknown state has been rejected while other
\* entries are in the store.
C7_Witness ==
    /\ last.outcome = "csrf_invalid"
    /\ last.query.state \notin consumed
    /\ DOMAIN kv # {}

\* C8 as stated: when the token endpoint answers the exchange with a
\* non-success status, the callback is answered 400 in both variants, the
\* failure does not leave the handler uncaught, and no registration call,
\* session or grant follows.
C8_Original ==
    (last.route = "callback" /\ Len(last.tokenCalls) = 1 /\ ~last.tokenCalls[1].ok)
    => (/\ last.status = 400
        /\ ~last.uncaught
        /\ last.outcome = "token_exchange_error"
        /\ last.registerCalls = NoCalls
        /\ last.session = Undefined)

-----------------------------------------------------------------------------
(* Properties of the tool dispatcher. *)

\* A get_physical_info invocation has ended and its create call returned a
\* transaction.
CreatedTransaction ==
    /\ tool.pc = "done"
    /\ tool.toolName = "get_physical_info"
    /\ Len(tool.calls) >= 1
    /\ ~tool.calls[1].thrown
    /\ tool.calls[1].value # JNull

\* The list call of that invocation returned (did not fail).
Listed ==
    /\ CreatedTransaction
    /\ Len(tool.calls) >= 2
    /\ ~tool.calls[2].thrown

\* The resource URLs the list call returned; none for a null body or a body
\* without the list.
ListedUrls ==
    LET body == tool.calls[2].value
    IN  IF body = JNull THEN << >>
        ELSE IF Member(body, "physical-informations") = JNull THEN << >>
        ELSE Member(body, "physical-informations").items

\* Positions of the commit PUTs and of the resource fetches among the calls.
CommitCalls == {i \in DOMAIN tool.calls : tool.calls[i].request.method = "PUT"}

FetchCalls ==
    {i \in DOMAIN tool.calls : i > 2 /\ tool.calls[i].request.method = "GET"}

IsErrorResult == "isError" \in DOMAIN tool.result

\* C3 as stated: when the transaction lists N >= 1 resources, exactly N
\* fetches are issued, all before the commit PUT, and the commit PUT is issued
\* exactly once, whether the fetches succeed or fail.
C3_Original ==
    (Listed /\ Len(ListedUrls) >= 1)
    => (/\ Cardinality(FetchCalls) = Len(ListedUrls)
        /\ Cardinality(CommitCalls) = 1
        /\ \A c \in CommitCalls : \A f \in FetchCalls : f < c)

\* C4 as stated: when the list call returns zero resources (null body,
\* missing list or empty list), the commit PUT is issued exactly once, no
\* resource is fetched, and the result is a non-error payload, also when the
\* commit PUT fails.
C4_Original ==
    (Listed /\ Len(ListedUrls) = 0)
    => (/\ Cardinality(CommitCalls) = 1
        /\ FetchCalls = {}
        /\ ~IsErrorResult)

\* C5 as stated: on every path on which the create call returned a
\* transaction, the commit PUT for that transaction is issued before the tool
\* returns, the paths where the list call or a fetch fails included.
C5_Original ==
    CreatedTransaction
    => \E i \in CommitCalls :
           tool.calls[i].request.url
               = POLAR_API_BASE \o "/users/" \o tool.userId
                 \o "/physical-information-transactions/"
                 \o Member(tool.calls[1].value, "transaction-id").s

\* C9 as stated: a date-range tool invoked through executePolarTool with from
\* or to absent is rejected with an error result and no upstream request.
C9_Original ==
    (/\ tool.pc = "done"
     /\ tool.impl = "executePolarTool"
     /\ tool.toolName \in RangeTools
     /\ (tool.args.from = Undefined \/ tool.args.to = Undefined))
    => (IsErrorResult /\ tool.calls = << >>)

\* The text of an envelope starts with "Error: ".
ErrorText(text) == Len(text) >= 7 /\ SubSeq(text, 1, 7) = "Error: "

\* C10: every invocation of executePolarTool, whatever the tool name and
\* whatever the vendor answers, ends with an envelope of one text item that
\* is either a normal payload (no isError member) or an error payload
\* (isError true, text starting with "Error: "); a name that is not in the
\* table gets the error payload and no upstream request is made.
C10_Envelope ==
    (tool.pc = "done" /\ tool.impl = "executePolarTool")
    => (/\ "content" \in DOMAIN tool.result
        /\ Len(tool.result.content) = 1
        /\ tool.result.content[1].type = "text"
        /\ \/ DOMAIN tool.result = {"content"}
           \/ /\ DOMAIN tool.result = {"content", "isError"}
              /\ tool.result.isError = TRUE
              /\ ErrorText(tool.result.content[1].text)
        /\ tool.toolName \notin ToolNames
           => (/\ IsErrorResult
               /\ tool.result.content[1].text = "Error: Unknown tool: " \o tool.toolName
               /\ tool.calls = << >>))

\* C10 witness: an invocation with a name that is not in the table has ended
\* with the error payload.
C10_Witness ==
    /\ tool.pc = "done"
    /\ tool.impl = "executePolarTool"
    /\ tool.toolName \notin ToolNames
    /\ IsErrorResult

\* The tools whose endpoint is built from the vendor user id.
UserIdTools == {"get_user_info", "get_physical_info"}

\* C11: get_user_info and get_physical_info, invoked through executePolarTool
\* or the local server with no user id (unset or empty), end with an error
\* result whose text names POLAR_USER_ID, and no upstream request is made (no
\* transaction is created).
C11_FailFast ==
    (/\ tool.pc = "done"
     /\ tool.impl \in {"executePolarTool", "local"}
     /\ tool.toolName \in UserIdTools
     /\ tool.userId \in {Undefined, ""})
    => (/\ IsErrorResult
        /\ tool.calls = << >>
        /\ Includes(tool.result.content[1].text, "POLAR_USER_ID"))

\* C11 witness: get_physical_info has been invoked without a user id and
\* rejected.
C11_Witness ==
    /\ tool.pc = "done"
    /\ tool.toolName = "get_physical_info"
    /\ tool.userId = Undefined
    /\ IsErrorResult
    /\ tool.calls = << >>

\* C12 as stated: every request polarApiRequest sends carries
\* Authorization: Bearer <accessToken> and Accept: application/json, whatever
\* headers the caller passes: caller headers cannot replace the two.
C12_Original ==
    tool.pc = "done"
    => \A i \in DOMAIN tool.calls :
           /\ tool.calls[i].request.headers["Authorization"] = "Bearer " \o AccessToken
           /\ tool.calls[i].request.headers["Accept"] = "application/json"

\* The single upstream request of an ended invocation.
OneGet(url) ==
    /\ Len(tool.calls) = 1
    /\ tool.calls[1].request.method = "GET"
    /\ tool.calls[1].request.url = url

\* An invocation of a dispatcher-style tool (executePolarTool or a hosted
\* handler) has ended.
Dispatched(names) ==
    /\ tool.pc = "done"
    /\ tool.impl \in {"executePolarTool", "MyMCP"}
    /\ tool.toolName \in names

\* C13: for get_exercises and get_exercise and each flag of samples and
\* zones, the query string of the upstream request contains flag=true exactly
\* when the flag argument is true; a flag that is absent or false does not
\* appear in the URL at all, and with no flag set the URL has no "?".
C13_Flags ==
    Dispatched(FlagTools)
    => (/\ Len(tool.calls) = 1
        /\ LET url == tool.calls[1].request.url
           IN  /\ \A f \in {"samples", "zones"} :
                      /\ Includes(url, f \o "=true") <=> tool.args[f] = JTrue
                      /\ tool.args[f] # JTrue => ~Includes(url, f)
               /\ (tool.args.samples # JTrue /\ tool.args.zones # JTrue)
                  => ~Includes(url, "?")
               /\ (tool.args.samples = JTrue /\ tool.args.zones = JTrue)
                  => Includes(url, "?samples=true&zones=true"))

\* C13 witness: get_exercise has been called with samples false and zones
\* true.
C13_Witness ==
    /\ Dispatched({"get_exercise"})
    /\ tool.args.samples = JFalse
    /\ tool.args.zones = JTrue
    /\ Includes(tool.calls[1].request.url, "/exercises/ex1?zones=true")

\* The collection path of each date-based lookup tool.
DateCollection ==
    "get_sleep" :> "/users/sleep"
    @@ "get_nightly_recharge" :> "/users/nightly-recharge"
    @@ "get_daily_activity" :> "/users/activities"
    @@ "get_cardio_load" :> "/users/cardio-load"
    @@ "get_activity_samples" :> "/users/activities/samples"

\* C14: each date-based lookup tool issues exactly one upstream GET: to
\* <collection>/<date> when it is given a date, to the bare collection path
\* when the date is absent (or the empty string); when the vendor answers
\* with a JSON value, the tool result is a normal payload whose text is that
\* value.
C14_DateLookup ==
    Dispatched(DOMAIN DateCollection)
    => (/\ OneGet(POLAR_API_BASE \o DateCollection[tool.toolName]
                  \o (IF tool.args.date \in {Undefined, ""} THEN ""
                      ELSE "/" \o tool.args.date))
        /\ \A v \in JsonValues :
               tool.calls[1].response = Ok(v)
               => tool.result = Payload(JSONstringifyIndented(v)))

\* C14 witness: get_sleep with date 2024-01-15 has returned the vendor's
\* value.
C14_Witness ==
    /\ Dispatched({"get_sleep"})
    /\ tool.args.date = "2024-01-15"
    /\ OneGet(POLAR_API_BASE \o "/users/sleep/2024-01-15")
    /\ \E v \in Payloads : tool.result = Payload(JSONstringifyIndented(v))

\* The collection path of each range tool.
RangeCollection ==
    "get_continuous_heart_rate_range" :> "/users/continuous-heart-rate"
    @@ "get_cardio_load_range" :> "/users/cardio-load/date"
    @@ "get_activity_samples_range" :> "/users/activities/samples"
    @@ "get_daily_activity_range" :> "/users/activities"
    @@ "get_sleep_range" :> "/users/sleep"
    @@ "get_nightly_recharge_range" :> "/users/nightly-recharge"

\* C15: a range tool invoked with both from and to issues exactly one
\* upstream GET, to its collection path with the query from=<from>&to=<to>
\* in that order, also when from is later than to: no local check of the
\* range is made.
C15_Range ==
    (/\ Dispatched(RangeTools)
     /\ tool.args.from # Undefined
     /\ tool.args.to # Undefined)
    => OneGet(POLAR_API_BASE \o RangeCollection[tool.toolName]
              \o "?from=" \o tool.args.from \o "&to=" \o tool.args.to)

\* C15 witness: get_nightly_recharge_range has been called with from later
\* than to and the request has gone upstream.
C15_Witness ==
    /\ Dispatched({"get_nightly_recharge_range"})
    /\ tool.args.from = "2024-02-01"
    /\ tool.args.to = "2024-01-07"
    /\ OneGet(POLAR_API_BASE
              \o "/users/nightly-recharge?from=2024-02-01&to=2024-01-07")
    /\ ~IsErrorResult

\* A registration call has ended.
Registering == tool.pc = "done" /\ tool.impl \in {"registerPolarUser", "registerUser"}

\* The member id each function derives from the user id.
MemberIdOf(impl, userId) ==
    (IF impl = "registerUser" THEN "user_" ELSE "mcp_user_") \o ToString(userId)

\* C16: every registration call is exactly one POST to /users carrying the
\* member id derived from the user id; it reports success when the vendor
\* answers 2xx and also when it answers 409; and a call repeated for a user
\* the vendor has already registered is answered 409 and reports success: the
\* reported outcome of registering twice is success both times.
C16_Idempotent ==
    /\ [](Registering
          => (/\ Len(tool.calls) = 1
              /\ tool.calls[1].request.method = "POST"
              /\ tool.calls[1].request.url = POLAR_API_BASE \o "/users"
              /\ tool.calls[1].request.body
                     = "{\"member-id\":\"" \o MemberIdOf(tool.impl, tool.userId) \o "\"}"
              /\ tool.calls[1].response.status \in {200, 409}
                 => (/\ tool.result.success
                     /\ ~Includes(tool.result.log, "note"))))
    /\ [][(tool = Idle /\ Registering' /\ tool'.userId \in registered
           /\ tool'.calls[1].response.status # 500)
          => (tool'.calls[1].response.status = 409 /\ tool'.result.success)]_vars

\* C16 witness: registerPolarUser has been called for a user an earlier call
\* registered; the vendor answered 409 and the call reported success.
C16_Witness ==
    /\ Registering
    /\ tool.impl = "registerPolarUser"
    /\ tool.userId \in registered
    /\ tool.calls[1].response.status = 409
    /\ tool.result.success

\* C17: a callback whose token exchange succeeded makes the registration
\* call and reaches COMPLETED whatever status the registration ends with
\* (200, 409 or a failure): in opaque-session mode the session entry is
\* stored with the exchanged token, in delegated mode the grant is finalised
\* with it.
C17_RegistrationNonFatal ==
    (/\ last.route = "callback"
     /\ Len(last.tokenCalls) = 1
     /\ last.tokenCalls[1].ok)
    => (/\ Len(last.registerCalls) = 1
        /\ last.outcome = "COMPLETED"
        /\ variant = "opaque"
           => (/\ KvHas(kv, SessionKey(last.session))
               /\ kv[SessionKey(last.session)].accessToken
                      = last.registerCalls[1].access_token)
        /\ variant = "delegated"
           => (/\ Len(grants) >= 1
               /\ grants[Len(grants)].accessToken
                      = last.registerCalls[1].access_token))

\* C17 witness: a callback has completed although its registration call was
\* answered 500.
C17_Witness ==
    /\ last.outcome = "COMPLETED"
    /\ last.registerCalls[1].status = 500
    /\ variant = "opaque"
    /\ KvHas(kv, SessionKey(last.session))

\* The request to /mcp or /sse named a session entry present in the store.
SessionFound ==
    /\ Truthy(last.sessionParam)
    /\ KvHas(kv, SessionKey(last.sessionParam))

\* C18: in opaque-session mode a request to /mcp or /sse reaches the tool
\* transport only when its session parameter names a session entry in the
\* store, and then every upstream call made for it carries the access token
\* stored in that entry; a missing or empty parameter, or a session that is
\* unknown or has expired, is answered 401 with the authorize URL, and no
\* tool runs and no upstream call is made. The store is left as it was.
C18_SessionGate ==
    /\ [](last.route = "mcp"
          => IF SessionFound
             THEN /\ last.outcome = "HANDED_TO_TRANSPORT"
                  /\ \A i \in DOMAIN last.toolCalls :
                         last.toolCalls[i].request.headers["Authorization"]
                             = "Bearer " \o kv[SessionKey(last.sessionParam)].accessToken
             ELSE /\ last.status = 401
                  /\ last.outcome \in {"missing_session", "session_expired"}
                  /\ Includes(last.authorizeUrl, "/authorize")
                  /\ last.authorizeUrl \in {o \o "/authorize" : o \in Origins}
                  /\ last.toolCalls = NoCalls)
    /\ [][last'.route = "mcp" /\ last.route # "mcp" => kv' = kv]_vars

\* C18 witness: a tool call over a stored session has gone upstream with the
\* second user's token while another session is in the store.
C18_Witness ==
    /\ last.route = "mcp"
    /\ last.outcome = "HANDED_TO_TRANSPORT"
    /\ Len(last.toolCalls) = 1
    /\ last.toolCalls[1].request.headers["Authorization"] = "Bearer tokB"
    /\ \E k \in DOMAIN kv : k # SessionKey(last.sessionParam)

\* C19 as stated: in the delegated flow a GET /authorize whose cookies do not
\* hold an approval for exactly the requesting client id (no cookie, or a
\* cookie set for another client id) gets the approval page: no state entry
\* is created and no vendor redirect is issued by that request.
C19_Original ==
    (/\ variant = "delegated"
     /\ last.route = "authorize"
     /\ last.cookie # COOKIE_NAME \o "=" \o last.clientId)
    => (/\ last.outcome = "APPROVAL_PAGE"
        /\ last.issuedState = Undefined
        /\ \A i \in DOMAIN last.kvOps :
               \A t \in Tokens : last.kvOps[i].key # StateKey(t))

\* A handler has just handled a request.
HandlerStep == last = NoEvent /\ last' # NoEvent

\* The keys that can be made from the UUIDs drawn after the lo-th and up to
\* the hi-th draw.
FreshKeys(lo, hi) ==
    UNION {{StateKey(RandomUUID(n)), AuthRequestKey(RandomUUID(n)),
            SessionKey(RandomUUID(n))} : n \in (lo + 1)..hi}

SingleUseKeys ==
    {StateKey(t) : t \in Tokens} \cup {AuthRequestKey(t) : t \in Tokens}

\* C20 as stated, its safety half: no single-use key is read more than once.
\* A handler never reads a state key that a callback has already read and
\* deleted, nor an auth_request key that a callback has already read and
\* deleted.
C20_Original ==
    [][HandlerStep
       => \A i \in DOMAIN last'.kvOps :
              last'.kvOps[i].op = "get"
              => (/\ \A t \in consumed : last'.kvOps[i].key # StateKey(t)
                  /\ \A r \in resolved : last'.kvOps[i].key # AuthRequestKey(r))]_vars

\* C20, amended: every key a handler writes is made from a UUID drawn in
\* that same request and was not in the store, so each key is written at
\* most once over a run; a handler deletes only single-use keys, only right
\* after a get that found the key, and the key is gone afterwards, so each
\* single-use key is deleted at most once; a state key that a get finds is
\* deleted at once; session keys are never deleted by a handler. The store
\* changes by exactly these writes and deletes.
C20_KeyLifecycle ==
    [][HandlerStep
       => LET ops == last'.kvOps
              puts == {ops[i].key : i \in {j \in DOMAIN ops : ops[j].op = "put"}}
              deletes == {ops[i].key : i \in {j \in DOMAIN ops : ops[j].op = "delete"}}
          IN  /\ \A i \in DOMAIN ops :
                     /\ ops[i].op = "put"
                        => (/\ ops[i].key \in FreshKeys(uuid, uuid')
                            /\ ops[i].key \notin DOMAIN kv
                            /\ \A j \in DOMAIN ops :
                                   (j # i /\ ops[j].op = "put")
                                   => ops[j].key # ops[i].key)
                     /\ ops[i].op = "delete"
                        => (/\ ops[i].key \in SingleUseKeys
                            /\ ops[i].key \in DOMAIN kv
                            /\ i > 1
                            /\ ops[i - 1] = Op("get", ops[i].key))
                     /\ (/\ ops[i].op = "get"
                         /\ ops[i].key \in DOMAIN kv
                         /\ \E t \in Tokens : ops[i].key = StateKey(t))
                        => (i < Len(ops) /\ ops[i + 1] = Op("delete", ops[i].key))
              /\ DOMAIN kv' = (DOMAIN kv \cup puts) \ deletes]_vars

\* C20 witness: a delegated callback has read and deleted its state entry and
\* then read an auth_request key that is no longer in the store.
C20_Witness ==
    /\ variant = "delegated"
    /\ last.outcome = "request_expired"
    /\ Len(last.kvOps) = 3
    /\ last.kvOps[3].op = "get"

\* The handled callback sent the token exchange POST.
ReachedExchange(e) == e.route = "callback" /\ Len(e.tokenCalls) = 1

\* C21 as stated: the redirect_uri a callback sends in the token exchange
\* POST is the string that was sent as redirect_uri in the vendor authorize
\* redirect that issued the callback's state, on whatever request URLs
\* /authorize and /callback are reached.
C21_Original ==
    ReachedExchange(last)
    => (/\ KvHas(issued, last.query.state)
        /\ last.tokenCalls[1].redirect_uri = issued[last.query.state].redirectUri)

\* The invocation is one of a tool handler that is not the transaction
\* workflow of get_physical_info.
OneCallTool ==
    /\ tool.pc = "done"
    /\ tool.impl \in {"executePolarTool", "MyMCP", "local"}
    /\ ~(tool.toolName = "get_physical_info"
         /\ tool.impl \in {"executePolarTool", "local"})

\* C22: polarApiRequest never retries. A direct call sends exactly one HTTP
\* request, whether the response is a success, a non-success status or an
\* empty body; every tool other than get_physical_info sends at most one
\* upstream request per invocation; and in every invocation a request that
\* failed is the last one sent.
C22_NoRetry ==
    tool.pc = "done"
    => (/\ tool.impl = "polarApiRequest" => Len(tool.calls) = 1
        /\ OneCallTool => Len(tool.calls) <= 1
        /\ tool.impl \in {"executePolarTool", "MyMCP", "local", "polarApiRequest"}
           => \A i \in DOMAIN tool.calls :
                  tool.calls[i].thrown => i = Len(tool.calls))

\* C22 witness: a tool other than get_physical_info got a non-success answer
\* to its one request and ended with that single request.
C22_Witness ==
    /\ OneCallTool
    /\ tool.impl = "executePolarTool"
    /\ Len(tool.calls) = 1
    /\ tool.calls[1].thrown
    /\ ~tool.calls[1].response.ok

\* The delegated callback being handled passes the parameter checks and
\* names a stored state entry whose auth request is not in the store.
OrphanState(q) ==
    /\ variant = "delegated"
    /\ CallbackPrecheck(q) = "pass"
    /\ KvHas(kv, StateKey(q.state))
    /\ ~KvHas(kv, AuthRequestKey(kv[StateKey(q.state)].stateKey))

\* C23: in the delegated flow a callback whose state entry is stored but
\* whose linked auth_request entry is absent is answered 400 with
\* request_expired; no token exchange, no registration call and no grant
\* follow, and the state entry is deleted all the same.
C23_RequestExpired ==
    [][(CallbackStep /\ OrphanState(last'.query))
       => (/\ last'.status = 400
           /\ last'.outcome = "request_expired"
           /\ ~last'.uncaught
           /\ last'.tokenCalls = NoCalls
           /\ last'.registerCalls = NoCalls
           /\ grants' = grants
           /\ completed' = completed
           /\ kv' = KvDelete(kv, StateKey(last'.query.state)))]_vars

\* C23 witness: a delegated callback was answered request_expired after it
\* deleted the state entry it found.
C23_Witness ==
    /\ variant = "delegated"
    /\ last.outcome = "request_expired"
    /\ last.status = 400
    /\ FoundState(last)
    /\ ~KvHas(kv, StateKey(last.query.state))
    /\ grants = << >>

\* The query has no error parameter (or an empty one) and lacks a code or a
\* state.
Incomplete(q) == ~Truthy(q.error) /\ (~Truthy(q.code) \/ ~Truthy(q.state))

\* C24: a callback without an error parameter in which code or state is
\* missing or empty is answered 400 with bad_request before any store
\* access: no get, put or delete is issued, the store is left as it was, so a
\* stored state entry stays usable, and no token exchange, registration,
\* session or grant follows. This holds in both hosted variants.
C24_BadRequest ==
    [][(CallbackStep /\ Incomplete(last'.query))
       => (/\ last'.status = 400
           /\ last'.outcome = "bad_request"
           /\ last'.kvOps = << >>
           /\ last'.tokenCalls = NoCalls
           /\ last'.registerCalls = NoCalls
           /\ last'.session = Undefined
           /\ UNCHANGED <<kv, uuid, grants, completed, consumed, resolved>>)]_vars

\* C24 witness: a callback that named a stored state entry but carried no
\* code was answered bad_request, and the state entry is still stored.
C24_Witness ==
    /\ last.route = "callback"
    /\ last.outcome = "bad_request"
    /\ last.query.error = Undefined
    /\ ~Truthy(last.query.code)
    /\ Truthy(last.query.state)
    /\ KvHas(kv, StateKey(last.query.state))

\* A get_physical_info invocation of the transaction workflow has ended and
\* its create call succeeded with an empty body: no transaction.
NoTransaction ==
    /\ tool.pc = "done"
    /\ tool.toolName = "get_physical_info"
    /\ tool.impl \in {"executePolarTool", "local"}
    /\ Len(tool.calls) >= 1
    /\ tool.calls[1].request.method = "POST"
    /\ ~tool.calls[1].thrown
    /\ tool.calls[1].value = JNull

\* C25 as stated: when the create-transaction call succeeds but returns no
\* transaction, get_physical_info reports a non-error result and stops: the
\* create call is the only upstream call, so no list call, no resource fetch
\* and no commit PUT is issued.
C25_Original ==
    NoTransaction => (Len(tool.calls) = 1 /\ ~IsErrorResult)

\* A get_physical_info invocation of the transaction workflow listed N >= 1
\* resources and every one of its N fetches succeeded.
AllFetched ==
    /\ Listed
    /\ tool.impl \in {"executePolarTool", "local"}
    /\ Len(ListedUrls) >= 1
    /\ Len(tool.calls) >= 2 + Len(ListedUrls)
    /\ \A i \in 3..(2 + Len(ListedUrls)) : ~tool.calls[i].thrown

\* The items the fetches returned, in listed order.
FetchedItems == [i \in 1..Len(ListedUrls) |-> tool.calls[2 + i].value]

\* C26 as stated: when all N >= 1 resource fetches succeeded, the result of
\* get_physical_info is the non-error payload holding the fetched items (the
\* item itself when N = 1, the items in listed order when N > 1), whether the
\* commit PUT succeeds or fails.
C26_Original ==
    AllFetched
    => tool.result
           = Payload(JSONstringifyIndented(IF Len(FetchedItems) = 1
                                           THEN FetchedItems[1]
                                           ELSE JArr(FetchedItems)))

\* C27 as stated: both hosted variants run the same state machine up to the
\* terminal action. Whatever the variant, a callback that fails the parameter
\* checks ends with that failure and leaves the store alone; one whose state
\* entry is not stored ends csrf_invalid and leaves the store alone; every
\* other callback consumes the state entry and reaches the token exchange,
\* and then ends COMPLETED when the exchange succeeds and with a caught 400
\* token_exchange_error when it does not. Only what COMPLETED does differs.
C27_Original ==
    [][CallbackStep
       => LET q == last'.query
              pre == CallbackPrecheck(q)
          IN  IF pre # "pass"
              THEN last'.outcome = pre /\ last'.status = 400 /\ kv' = kv
              ELSE IF ~KvHas(kv, StateKey(q.state))
              THEN /\ last'.outcome = "csrf_invalid"
                   /\ last'.status = 400
                   /\ kv' = kv
              ELSE /\ ~KvHas(kv', StateKey(q.state))
                   /\ ReachedExchange(last')
                   /\ IF ExchangeOk(last') THEN last'.outcome = "COMPLETED"
                      ELSE /\ last'.outcome = "token_exchange_error"
                           /\ last'.status = 400
                           /\ ~last'.uncaught]_vars

\* The callback handled as p has passed the state check and gone on to the
\* token exchange.
Exchanging(p) ==
    \/ inflight[p].pc = "exchange"
    \/ /\ inflight[p].pc = "done"
       /\ inflight[p].outcome \in {"COMPLETED", "token_exchange_error"}

\* C28 as stated: of two callbacks that carry the same stored state and are
\* handled concurrently, their store steps interleaved in any order, at most
\* one passes the state check and goes on to the token exchange.
C28_Original ==
    \A p1, p2 \in Procs :
        (/\ p1 # p2
         /\ Exchanging(p1)
         /\ Exchanging(p2))
        => inflight[p1].query.state # inflight[p2].query.state

SessionKeys == {SessionKey(t) : t \in Tokens}

\* The step was a callback that found its state entry in the store and whose
\* token exchange succeeded with the given token and user id.
ValidatedExchange(accessToken, userId) ==
    /\ CallbackStep
    /\ CallbackPrecheck(last'.query) = "pass"
    /\ KvHas(kv, StateKey(last'.query.state))
    /\ ~KvHas(kv', StateKey(last'.query.state))
    /\ last'.outcome = "COMPLETED"
    /\ Len(last'.tokenCalls) = 1
    /\ last'.tokenCalls[1].ok
    /\ last'.tokenCalls[1].access_token = accessToken
    /\ last'.tokenCalls[1].x_user_id = userId

\* C29: every session entry of the store and every finalised grant holds
\* the access token and user id returned by a successful token exchange made
\* in a callback that found its state entry in the store. Initially there is
\* none; a step that adds a session entry or a grant is such a callback, adds
\* exactly one, and stores the values of its exchange; a stored session or a
\* finalised grant is never rewritten.
C29_Provenance ==
    [][/\ \A k \in SessionKeys \cap DOMAIN kv' :
              IF k \in DOMAIN kv THEN kv'[k] = kv[k]
              ELSE /\ ValidatedExchange(kv'[k].accessToken, kv'[k].userId)
                   /\ last'.session # Undefined
                   /\ k = SessionKey(last'.session)
                   /\ variant = "opaque"
       /\ Len(grants') >= Len(grants)
       /\ SubSeq(grants', 1, Len(grants)) = grants
       /\ Len(grants') <= Len(grants) + 1
       /\ Len(grants') = Len(grants) + 1
          => (/\ ValidatedExchange(grants'[Len(grants')].accessToken,
                                   grants'[Len(grants')].userId)
              /\ variant = "delegated"
              /\ grants'[Len(grants')].request \in requests)]_vars

\* C29 witness: a session entry holds the token and user id of the second
\* vendor account, stored by a completed callback.
C29_Witness ==
    /\ variant = "opaque"
    /\ last.outcome = "COMPLETED"
    /\ KvHas(kv, SessionKey(last.session))
    /\ kv[SessionKey(last.session)]
           = [accessToken |-> "tokB", userId |-> 22]
    /\ last.tokenCalls[1].access_token = "tokB"

\* The step is the handling of a POST /authorize request.
PostAuthorizeStep == last = NoEvent /\ last'.route = "post_authorize"

\* C30: in the delegated flow, with callbacks handled one after another, at
\* most one grant is finalised for each stored auth request, however many
\* times POST /authorize is submitted with its state_key and however many
\* states are issued for it; and a POST /authorize whose state_key has no
\* stored auth_request is answered 400 and creates no state entry.
C30_OneGrant ==
    /\ [](\A i, j \in DOMAIN grants :
              grants[i].request = grants[j].request => i = j)
    /\ [][PostAuthorizeStep
          => (/\ Len(last'.kvOps) >= 1
              /\ last'.kvOps[1].op = "get"
              /\ \E s \in Tokens \cup {Undefined} :
                     last'.kvOps[1].key = AuthRequestKey(s)
              /\ ~KvHas(kv, last'.kvOps[1].key)
                 => (/\ last'.status = 400
                     /\ last'.issuedState = Undefined
                     /\ kv' = kv
                     /\ issued' = issued
                     /\ uuid' = uuid))]_vars

\* C30 witness: two states were issued for one auth request; the callback of
\* the first finalised its grant, and the callback of the second has ended
\* request_expired, leaving that single grant.
C30_Witness ==
    /\ variant = "delegated"
    /\ last.outcome = "request_expired"
    /\ Len(grants) = 1
    /\ KvHas(issued, last.query.state)
    /\ grants[1].request = issued[last.query.state].stateKey
    /\ \E t \in DOMAIN issued :
           /\ t # last.query.state
           /\ issued[t].stateKey = grants[1].request

====
